---- MODULE Spec2Model ----
(***************************************************************************)
(* Food-expiry tracker: the produce rot-prediction calculator              *)
(* (predictRotDate) and the expiry-rule resolver (findExpiryRule,          *)
(* calculateExpiryDate).                                                   *)
(*                                                                         *)
(* JavaScript numbers are IEEE-754 binary64.  `shelfLife *= 0.85` is       *)
(* modelled bit for bit: a positive double is [m, e] with value m * 2^e    *)
(* and 2^52 <= m < 2^53, the 53-bit significand m being kept as four       *)
(* 14-bit limbs (least significant first) because TLC integers are 32 bit. *)
(***************************************************************************)
EXTENDS Integers, Sequences, FiniteSets, TLC

(***************************************************************************)
(* Natural numbers of arbitrary size, as sequences of 14-bit limbs.        *)
(***************************************************************************)
LimbBits == 14
LimbBase == 16384
SigBits == 53

Pow2(n) == 2 ^ n

Max(a, b) == IF a >= b THEN a ELSE b
Abs(x) == IF x < 0 THEN -x ELSE x

\* limb i (1-based) of x, 0 beyond its length
Limb(x, i) == IF i >= 1 /\ i <= Len(x) THEN x[i] ELSE 0

\* x without its most significant zero limbs
RECURSIVE Trim(_)
Trim(x) == IF Len(x) > 0 /\ x[Len(x)] = 0 THEN Trim(SubSeq(x, 1, Len(x) - 1)) ELSE x

\* carry propagation over a sequence of column sums
RECURSIVE Carry(_, _, _)
Carry(cols, i, c) ==
    IF i > Len(cols)
    THEN IF c = 0 THEN << >> ELSE <<c % LimbBase>> \o Carry(cols, i, c \div LimbBase)
    ELSE <<(cols[i] + c) % LimbBase>> \o Carry(cols, i + 1, (cols[i] + c) \div LimbBase)

\* the product x * y of two four-limb numbers, column by column (a column
\* sum is below 2^30)
BigMul(x, y) ==
    Trim(Carry(<<x[1] * y[1],
                 x[1] * y[2] + x[2] * y[1],
                 x[1] * y[3] + x[2] * y[2] + x[3] * y[1],
                 x[1] * y[4] + x[2] * y[3] + x[3] * y[2] + x[4] * y[1],
                 x[2] * y[4] + x[3] * y[3] + x[4] * y[2],
                 x[3] * y[4] + x[4] * y[3],
                 x[4] * y[4]>>, 1, 0))

BigFromInt(n) == Trim(Carry(<<n>>, 1, 0))

\* the number of significant bits of a limb value / of x
RECURSIVE BitLen(_)
BitLen(v) == IF v = 0 THEN 0 ELSE 1 + BitLen(v \div 2)

BigBitLen(x) == IF Len(x) = 0 THEN 0 ELSE (Len(x) - 1) * LimbBits + BitLen(x[Len(x)])

\* bit k (0 = least significant) of x
BigBit(x, k) == (Limb(x, (k \div LimbBits) + 1) \div Pow2(k % LimbBits)) % 2

\* TRUE iff some bit of x below bit k is set
BigAnyBelow(x, k) ==
    \/ \E i \in 1..Len(x) : i <= k \div LimbBits /\ x[i] # 0
    \/ Limb(x, (k \div LimbBits) + 1) % Pow2(k % LimbBits) # 0

\* floor(x / 2^s)
BigShiftRight(x, s) ==
    LET q == s \div LimbBits
        b == s % LimbBits
    IN  Trim([i \in 1..Max(Len(x) - q, 0) |->
                (Limb(x, i + q) \div Pow2(b))
                + (Limb(x, i + q + 1) % Pow2(b)) * Pow2(LimbBits - b)])

\* x * 2^s
BigShiftLeft(x, s) ==
    LET q == s \div LimbBits
        b == s % LimbBits
    IN  Trim([i \in 1..(Len(x) + q + 1) |->
                IF i <= q THEN 0
                ELSE (Limb(x, i - q) % Pow2(LimbBits - b)) * Pow2(b)
                     + (Limb(x, i - q - 1) \div Pow2(LimbBits - b))])

BigAddOne(x) == Trim(Carry(x, 1, 1))

\* the value of a small x as an integer
RECURSIVE BigToInt(_)
BigToInt(x) == IF Len(x) = 0 THEN 0 ELSE x[1] + LimbBase * BigToInt(Tail(x))

\* long division of x by a small d, from the most significant limb down:
\* [q |-> floor(x / d), r |-> x mod d]
RECURSIVE DivSmallFrom(_, _, _, _)
DivSmallFrom(x, d, i, r) ==
    IF i = 0 THEN [q |-> << >>, r |-> r]
    ELSE LET cur == r * LimbBase + x[i]
             rest == DivSmallFrom(x, d, i - 1, cur % d)
         IN  [q |-> rest.q \o <<cur \div d>>, r |-> rest.r]

TrimQuotient(res) == [q |-> Trim(res.q), r |-> res.r]

BigDivSmall(x, d) == TrimQuotient(DivSmallFrom(x, d, Len(x), 0))

(***************************************************************************)
(* IEEE-754 binary64 (the JavaScript number type), positive normal values. *)
(* [kind |-> "num", m, e] is m * 2^e; [kind |-> "nan"] is NaN.             *)
(***************************************************************************)
NaN == [kind |-> "nan"]

\* m * 2^e with m of SigBits or SigBits + 1 bits (the latter when rounding
\* carried into a new bit, the low bit then being 0)
Normalize(m, e) ==
    IF BigBitLen(m) > SigBits
    THEN [kind |-> "num", m |-> BigShiftRight(m, 1), e |-> e + 1]
    ELSE [kind |-> "num", m |-> m, e |-> e]

\* round to nearest, ties to even: the bits of q below bit s are dropped
RoundsUp(q, s, inexact) ==
    /\ BigBit(q, s - 1) = 1
    /\ (inexact \/ BigAnyBelow(q, s - 1) \/ BigBit(q, s) = 1)

RoundAt(q, s, inexact, e) ==
    Normalize(IF RoundsUp(q, s, inexact) THEN BigAddOne(BigShiftRight(q, s))
              ELSE BigShiftRight(q, s),
              e + s)

\* q holds more than SigBits bits of a value whose exact tail below q is
\* nonzero iff `inexact`; the nearest double of q * 2^e
RoundToDouble(q, inexact, e) == RoundAt(q, BigBitLen(q) - SigBits, inexact, e)

\* the double of a positive integer below 2^31 (exact)
DoubleFromInt(n) ==
    [kind |-> "num", m |-> BigShiftLeft(BigFromInt(n), SigBits - BitLen(n)),
     e |-> BitLen(n) - SigBits]

\* the double a decimal literal num/den denotes (0.85 is Literal(85, 100))
LiteralScale == 70
RoundQuotient(d) == RoundToDouble(d.q, d.r # 0, -LiteralScale)

Literal(num, den) == RoundQuotient(BigDivSmall(BigShiftLeft(BigFromInt(num), LiteralScale), den))

\* x * y, correctly rounded; NaN if either is NaN
DoubleMul(x, y) ==
    IF x.kind = "nan" \/ y.kind = "nan" THEN NaN
    ELSE RoundToDouble(BigMul(x.m, y.m), FALSE, x.e + y.e)

\* Math.round of a positive double below 2^31: the nearest integer, a tie
\* going up; NaN stays NaN
MathRound(x) ==
    IF x.kind = "nan" THEN NaN
    ELSE [kind |-> "int",
          v |-> BigToInt(BigShiftRight(x.m, -x.e))
                + (IF -x.e - 1 < SigBits THEN BigBit(x.m, -x.e - 1) ELSE 0)]

\* Math.max(1, r) for r from MathRound
MathMax1(r) == IF r.kind = "nan" THEN NaN ELSE [kind |-> "int", v |-> Max(1, r.v)]

(***************************************************************************)
(* Date: the local calendar day (days since 1970-01-01) and the time       *)
(* within that day.  getDate/setDate follow ECMAScript's DateFromTime and  *)
(* MakeDay.                                                                *)
(***************************************************************************)
InvalidDate == [valid |-> FALSE]

Int32(v) == [kind |-> "int", v |-> v]

DaysInYear(y) ==
    IF y % 4 # 0 THEN 365 ELSE IF y % 100 # 0 THEN 366 ELSE IF y % 400 # 0 THEN 365 ELSE 366

DayFromYear(y) ==
    365 * (y - 1970) + ((y - 1969) \div 4) - ((y - 1901) \div 100) + ((y - 1601) \div 400)

\* the largest year that starts on or before day d
RECURSIVE YearDownFrom(_, _)
YearDownFrom(y, d) == IF DayFromYear(y) <= d THEN y ELSE YearDownFrom(y - 1, d)

YearFromDay(d) == YearDownFrom(1970 + (d \div 365) + 1, d)

InLeapYear(d) == IF DaysInYear(YearFromDay(d)) = 366 THEN 1 ELSE 0

DayWithinYear(d) == d - DayFromYear(YearFromDay(d))

\* the day within the year on which month mo (0..11) starts; mo = 12 is the year's end
MonthStart(mo, leap) ==
    CASE mo = 0 -> 0
      [] mo = 1 -> 31
      [] mo = 2 -> 59 + leap
      [] mo = 3 -> 90 + leap
      [] mo = 4 -> 120 + leap
      [] mo = 5 -> 151 + leap
      [] mo = 6 -> 181 + leap
      [] mo = 7 -> 212 + leap
      [] mo = 8 -> 243 + leap
      [] mo = 9 -> 273 + leap
      [] mo = 10 -> 304 + leap
      [] mo = 11 -> 334 + leap
      [] OTHER -> 365 + leap

\* the month (0..11) holding day dayInYear of a year
MonthOf(dayInYear, leap) ==
    CHOOSE mo \in 0..11 :
        MonthStart(mo, leap) <= dayInYear /\ dayInYear < MonthStart(mo + 1, leap)

MonthFromDay(d) == MonthOf(DayWithinYear(d), InLeapYear(d))

\* Date.prototype.getDate: the day of the month, 1..31
DateFromDay(d) == DayWithinYear(d) - MonthStart(MonthFromDay(d), InLeapYear(d)) + 1

\* MakeDay(year, month, date): month is 0-based, date may lie outside the month
MakeDay(year, month, date) ==
    LET ym == year + (month \div 12)
        mn == month % 12
    IN  DayFromYear(ym) + MonthStart(mn, IF DaysInYear(ym) = 366 THEN 1 ELSE 0) + date - 1

\* new Date(year, monthIndex, day) at time tod of the day
NewDate(year, month, date, tod) == [valid |-> TRUE, day |-> MakeDay(year, month, date), tod |-> tod]

getDate(D) == DateFromDay(D.day)

\* D.setDate(n): the date is set within D's month and overflows into the
\* neighbouring months; the time within the day is kept.  NaN invalidates D.
setDate(D, n) ==
    IF n.kind = "nan" \/ ~D.valid THEN InvalidDate
    ELSE [valid |-> TRUE,
          day |-> MakeDay(YearFromDay(D.day), MonthFromDay(D.day), n.v),
          tod |-> D.tod]

\* the instants of a day the clock distinguishes
TicksPerDay == 2

(***************************************************************************)
(* The produce reference table and predictRotDate.                         *)
(***************************************************************************)
\* a variant that keeps the shelf life in whole weeks
ProduceInfoInWeeks(name, baseShelfLife, optimalTemp, optimalHumidity, ethyleneProducer, ethyleneSensitive) ==
    [name |-> name, baseShelfLife |-> baseShelfLife \div 7, optimalTemp |-> optimalTemp,
     optimalHumidity |-> optimalHumidity, ethyleneProducer |-> ethyleneProducer,
     ethyleneSensitive |-> ethyleneSensitive]

ProduceInfo(name, baseShelfLife, optimalTemp, optimalHumidity, ethyleneProducer, ethyleneSensitive) ==
    [name |-> name, baseShelfLife |-> baseShelfLife, optimalTemp |-> optimalTemp,
     optimalHumidity |-> optimalHumidity, ethyleneProducer |-> ethyleneProducer,
     ethyleneSensitive |-> ethyleneSensitive]

InitialProduceDatabase ==
    [apple |-> ProduceInfo("Apple", 30, 1, 90, TRUE, FALSE),
     banana |-> ProduceInfo("Banana", 7, 13, 90, TRUE, TRUE),
     orange |-> ProduceInfo("Orange", 21, 4, 90, FALSE, FALSE),
     mango |-> ProduceInfo("Mango", 10, 13, 90, TRUE, TRUE),
     grapes |-> ProduceInfo("Grapes", 14, 0, 90, FALSE, TRUE),
     strawberry |-> ProduceInfo("Strawberry", 5, 0, 95, FALSE, TRUE),
     watermelon |-> ProduceInfo("Watermelon", 14, 10, 85, FALSE, TRUE),
     papaya |-> ProduceInfo("Papaya", 7, 10, 90, TRUE, TRUE),
     pineapple |-> ProduceInfo("Pineapple", 5, 7, 90, FALSE, FALSE),
     avocado |-> ProduceInfo("Avocado", 7, 7, 90, TRUE, TRUE),
     tomato |-> ProduceInfo("Tomato", 7, 13, 90, TRUE, TRUE),
     potato |-> ProduceInfo("Potato", 30, 7, 95, FALSE, TRUE),
     onion |-> ProduceInfo("Onion", 30, 0, 65, FALSE, FALSE),
     carrot |-> ProduceInfo("Carrot", 21, 0, 98, FALSE, TRUE),
     spinach |-> ProduceInfo("Spinach", 7, 0, 95, FALSE, TRUE),
     broccoli |-> ProduceInfo("Broccoli", 14, 0, 95, FALSE, TRUE),
     cucumber |-> ProduceInfo("Cucumber", 10, 10, 95, FALSE, TRUE),
     capsicum |-> ProduceInfo("Capsicum", 14, 7, 95, FALSE, TRUE),
     cabbage |-> ProduceInfo("Cabbage", 21, 0, 98, FALSE, TRUE),
     cauliflower |-> ProduceInfo("Cauliflower", 14, 0, 95, FALSE, TRUE),
     lettuce |-> ProduceInfo("Lettuce", 7, 0, 98, FALSE, TRUE),
     eggplant |-> ProduceInfo("Eggplant", 7, 10, 90, FALSE, TRUE)]

undefined == [undefined |-> TRUE]

\* produceDatabase is an object literal: a key it does not own is looked up
\* on Object.prototype, whose members are functions (truthy, with a name and
\* none of the ProduceInfo fields) and, under __proto__, the prototype itself
ObjectPrototype ==
    [constructor |-> [name |-> "Object"],
     toString |-> [name |-> "toString"],
     valueOf |-> [name |-> "valueOf"],
     hasOwnProperty |-> [name |-> "hasOwnProperty"],
     __proto__ |-> [isPrototype |-> TRUE]]

\* db[key]
GetProperty(db, key) ==
    IF key \in DOMAIN db THEN db[key]
    ELSE IF key \in DOMAIN ObjectPrototype THEN ObjectPrototype[key]
    ELSE undefined

\* obj.field as a number operand: an absent field is undefined, which
\* arithmetic turns into NaN
NumberField(obj, field) == IF field \in DOMAIN obj THEN Int32(obj[field]) ELSE NaN

\* ${obj.field} inside a template literal: the field's value, or the text
\* undefined for an absent field
StringField(obj, field) == IF field \in DOMAIN obj THEN obj[field] ELSE "undefined"

Truthy(obj, field) == field \in DOMAIN obj /\ obj[field]

\* Math.abs(a - b) for an integer a
AbsDiff(a, b) == IF b.kind = "nan" THEN NaN ELSE Int32(Abs(a - b.v))

\* d <= n; every comparison with NaN is false
LessEq(d, n) == d.kind # "nan" /\ d.v <= n

\* let shelfLife = produce.baseShelfLife
ToDouble(n) == IF n.kind = "nan" THEN NaN ELSE DoubleFromInt(n.v)

Lit085 == Literal(85, 100)
Lit065 == Literal(65, 100)
Lit04 == Literal(4, 10)
Lit09 == Literal(9, 10)
Lit075 == Literal(75, 100)
Lit05 == Literal(5, 10)
Lit12 == Literal(12, 10)
Lit11 == Literal(11, 10)
Lit095 == Literal(95, 100)
Lit08 == Literal(8, 10)
Lit025 == Literal(25, 100)
Lit13 == Literal(13, 10)

\* a branch that leaves shelfLife as it is
Unchanged == [kind |-> "unchanged"]

\* shelfLife *= factor, in the branches that multiply
Times(shelfLife, factor) ==
    IF factor.kind = "unchanged" THEN shelfLife ELSE DoubleMul(shelfLife, factor)

\* d < n; every comparison with NaN is false
Less(d, n) == d.kind # "nan" /\ d.v < n

\* a variant whose tiers exclude their upper boundary
TemperatureStepExclusive(tempDiff) ==
    IF Less(tempDiff, 2)
    THEN [times |-> Unchanged, impact |-> "Optimal temperature maintained"]
    ELSE IF Less(tempDiff, 5)
    THEN [times |-> Lit085,
          impact |-> "Slightly suboptimal temperature (-15% shelf life)"]
    ELSE IF Less(tempDiff, 10)
    THEN [times |-> Lit065,
          impact |-> "Poor temperature control accelerates decay (-35% shelf life)"]
    ELSE [times |-> Lit04,
          impact |-> "Extreme temperature stress causes rapid spoilage (-60% shelf life)"]

TemperatureStep(tempDiff) ==
    IF LessEq(tempDiff, 2)
    THEN [times |-> Unchanged, impact |-> "Optimal temperature maintained"]
    ELSE IF LessEq(tempDiff, 5)
    THEN [times |-> Lit085,
          impact |-> "Slightly suboptimal temperature (-15% shelf life)"]
    ELSE IF LessEq(tempDiff, 10)
    THEN [times |-> Lit065,
          impact |-> "Poor temperature control accelerates decay (-35% shelf life)"]
    ELSE [times |-> Lit04,
          impact |-> "Extreme temperature stress causes rapid spoilage (-60% shelf life)"]

\* a variant whose tiers exclude their upper boundary
HumidityStepExclusive(humidityDiff) ==
    IF Less(humidityDiff, 5)
    THEN [times |-> Unchanged, impact |-> "Ideal humidity level"]
    ELSE IF Less(humidityDiff, 15)
    THEN [times |-> Lit09,
          impact |-> "Slightly off humidity (-10% shelf life)"]
    ELSE IF Less(humidityDiff, 30)
    THEN [times |-> Lit075,
          impact |-> "Humidity imbalance promotes microbial growth (-25% shelf life)"]
    ELSE [times |-> Lit05,
          impact |-> "Extreme humidity causes rapid deterioration (-50% shelf life)"]

\* a variant without the 30-point tier: beyond 15 points it is the last tier
HumidityStepTwoTiers(humidityDiff) ==
    IF LessEq(humidityDiff, 5)
    THEN [times |-> Unchanged, impact |-> "Ideal humidity level"]
    ELSE IF LessEq(humidityDiff, 15)
    THEN [times |-> Lit09,
          impact |-> "Slightly off humidity (-10% shelf life)"]
    ELSE [times |-> Lit05,
          impact |-> "Extreme humidity causes rapid deterioration (-50% shelf life)"]

HumidityStep(humidityDiff) ==
    IF LessEq(humidityDiff, 5)
    THEN [times |-> Unchanged, impact |-> "Ideal humidity level"]
    ELSE IF LessEq(humidityDiff, 15)
    THEN [times |-> Lit09,
          impact |-> "Slightly off humidity (-10% shelf life)"]
    ELSE IF LessEq(humidityDiff, 30)
    THEN [times |-> Lit075,
          impact |-> "Humidity imbalance promotes microbial growth (-25% shelf life)"]
    ELSE [times |-> Lit05,
          impact |-> "Extreme humidity causes rapid deterioration (-50% shelf life)"]

\* a variant in which paper falls through to the plastic case
PackagingStepPaperAsPlastic(packaging) ==
    CASE packaging = "refrigerated" ->
           [times |-> Lit12,
            impact |-> "Refrigeration extends freshness (+20% shelf life)"]
      [] packaging = "sealed" ->
           [times |-> Lit11,
            impact |-> "Sealed packaging reduces air exposure (+10% shelf life)"]
      [] packaging \in {"plastic", "paper"} ->
           [times |-> Lit095,
            impact |-> "Plastic may trap moisture (-5% shelf life)"]
      [] packaging = "none" ->
           [times |-> Lit085,
            impact |-> "No packaging increases air exposure (-15% shelf life)"]
      [] OTHER -> [times |-> Unchanged, impact |-> ""]

PackagingStep(packaging) ==
    CASE packaging = "refrigerated" ->
           [times |-> Lit12,
            impact |-> "Refrigeration extends freshness (+20% shelf life)"]
      [] packaging = "sealed" ->
           [times |-> Lit11,
            impact |-> "Sealed packaging reduces air exposure (+10% shelf life)"]
      [] packaging = "plastic" ->
           [times |-> Lit095,
            impact |-> "Plastic may trap moisture (-5% shelf life)"]
      [] packaging = "paper" ->
           [times |-> Unchanged, impact |-> "Paper allows breathing, neutral impact"]
      [] packaging = "none" ->
           [times |-> Lit085,
            impact |-> "No packaging increases air exposure (-15% shelf life)"]
      [] OTHER -> [times |-> Unchanged, impact |-> ""]

\* a variant in which severe damage falls through to the moderate case
DamageStepSevereAsModerate(damage) ==
    CASE damage = "none" ->
           [times |-> Unchanged, impact |-> "No physical damage detected"]
      [] damage = "minor" ->
           [times |-> Lit08,
            impact |-> "Minor bruising creates entry points for bacteria (-20% shelf life)"]
      [] damage \in {"moderate", "severe"} ->
           [times |-> Lit05,
            impact |-> "Moderate damage accelerates enzymatic browning (-50% shelf life)"]
      [] OTHER -> [times |-> Unchanged, impact |-> ""]

DamageStep(damage) ==
    CASE damage = "none" ->
           [times |-> Unchanged, impact |-> "No physical damage detected"]
      [] damage = "minor" ->
           [times |-> Lit08,
            impact |-> "Minor bruising creates entry points for bacteria (-20% shelf life)"]
      [] damage = "moderate" ->
           [times |-> Lit05,
            impact |-> "Moderate damage accelerates enzymatic browning (-50% shelf life)"]
      [] damage = "severe" ->
           [times |-> Lit025,
            impact |-> "Severe damage causes rapid microbial invasion (-75% shelf life)"]
      [] OTHER -> [times |-> Unchanged, impact |-> ""]

RipenessStep(ripeness) ==
    CASE ripeness = "unripe" ->
           [times |-> Lit13,
            impact |-> "Unripe produce has longer shelf life (+30%)"]
      [] ripeness = "ripe" ->
           [times |-> Unchanged, impact |-> "Ripe produce at peak freshness window"]
      [] ripeness = "overripe" ->
           [times |-> Lit04,
            impact |-> "Overripe stage means rapid deterioration (-60% shelf life)"]
      [] OTHER -> [times |-> Unchanged, impact |-> ""]

\* a variant that tests the sensitive flag before the producer flag
EthyleneNoteSensitiveFirst(produce) ==
    IF Truthy(produce, "ethyleneSensitive")
    THEN <<StringField(produce, "name"),
           " is sensitive to ethylene - keep away from bananas, apples, and tomatoes">>
    ELSE IF Truthy(produce, "ethyleneProducer")
    THEN <<StringField(produce, "name"),
           " produces ethylene gas which speeds ripening of nearby produce">>
    ELSE <<StringField(produce, "name"), " has low ethylene interaction">>

EthyleneNote(produce) ==
    IF Truthy(produce, "ethyleneProducer")
    THEN <<StringField(produce, "name"),
           " produces ethylene gas which speeds ripening of nearby produce">>
    ELSE IF Truthy(produce, "ethyleneSensitive")
    THEN <<StringField(produce, "name"),
           " is sensitive to ethylene - keep away from bananas, apples, and tomatoes">>
    ELSE <<StringField(produce, "name"), " has low ethylene interaction">>

TempDiff(produce, conditions) ==
    AbsDiff(conditions.temperature, NumberField(produce, "optimalTemp"))

HumidityDiff(produce, conditions) ==
    AbsDiff(conditions.humidity, NumberField(produce, "optimalHumidity"))

\* a variant whose ripeness adjustment assigns (shelfLife = base * factor)
\* instead of compounding (shelfLife *= factor)
AdjustOverwritten(produce, conditions) ==
    Times(ToDouble(NumberField(produce, "baseShelfLife")), RipenessStep(conditions.ripeness).times)

\* the shelfLife accumulator after the five adjustments
Adjust(produce, conditions) ==
    Times(Times(Times(Times(Times(ToDouble(NumberField(produce, "baseShelfLife")),
                                  TemperatureStep(TempDiff(produce, conditions)).times),
                            HumidityStep(HumidityDiff(produce, conditions)).times),
                      PackagingStep(conditions.packaging).times),
                DamageStep(conditions.damage).times),
          RipenessStep(conditions.ripeness).times)

Factors(produce, conditions) ==
    [temperatureImpact |-> TemperatureStep(TempDiff(produce, conditions)).impact,
     humidityImpact |-> HumidityStep(HumidityDiff(produce, conditions)).impact,
     packagingImpact |-> PackagingStep(conditions.packaging).impact,
     damageImpact |-> DamageStep(conditions.damage).impact,
     ripenessImpact |-> RipenessStep(conditions.ripeness).impact,
     ethyleneNote |-> EthyleneNote(produce)]

\* a variant without the floor of one day
DaysLeftUnfloored(shelfLife) == MathRound(shelfLife)

\* const daysLeft = Math.max(1, Math.round(shelfLife))
DaysLeft(shelfLife) == MathMax1(MathRound(shelfLife))

\* a variant that counts from the next day once the first part of the day is over
RotDateByTimeOfDay(clock, daysLeft) ==
    setDate(clock, IF daysLeft.kind = "nan" THEN NaN
                   ELSE Int32(getDate(clock) + daysLeft.v + (IF clock.tod > 0 THEN 1 ELSE 0)))

\* const rotDate = new Date(); rotDate.setDate(rotDate.getDate() + daysLeft)
RotDate(clock, daysLeft) ==
    setDate(clock, IF daysLeft.kind = "nan" THEN NaN ELSE Int32(getDate(clock) + daysLeft.v))

Explanation(produce, factors, daysLeft) ==
    <<StringField(produce, "name"), StringField(produce, "baseShelfLife"),
      StringField(produce, "optimalTemp"), StringField(produce, "optimalHumidity"), daysLeft,
      factors.temperatureImpact, factors.humidityImpact, factors.damageImpact,
      IF Truthy(produce, "ethyleneProducer")
      THEN "This produce emits ethylene, accelerating ripening."
      ELSE "">>

\* the object predictRotDate returns
Prediction(produce, clock, factors, daysLeft) ==
    [threw |-> FALSE,
     daysLeft |-> daysLeft,
     rotDate |-> RotDate(clock, daysLeft),
     explanation |-> Explanation(produce, factors, daysLeft),
     factors |-> factors]

Lookup(db, clock, produce, conditions) ==
    IF produce = undefined
    THEN [threw |-> TRUE, error |-> "Unknown produce type"]
    ELSE Prediction(produce, clock, Factors(produce, conditions),
                    DaysLeft(Adjust(produce, conditions)))

\* predictRotDate(produceKey, conditions), reading the table db and the clock
predictRotDate(db, clock, produceKey, conditions) ==
    Lookup(db, clock, GetProperty(db, produceKey), conditions)

(***************************************************************************)
(* The expiry-rule table, findExpiryRule and calculateExpiryDate.  A       *)
(* string is the sequence of its characters.                               *)
(***************************************************************************)
ExpiryRule(keywords, daysUntilExpiry, category) ==
    [keywords |-> keywords, daysUntilExpiry |-> daysUntilExpiry, category |-> category]

InitialExpiryRules ==
  <<
    ExpiryRule(<<<<"m", "i", "l", "k">>,
                 <<"d", "o", "o", "d", "h">>>>, 3, "Dairy"),
    ExpiryRule(<<<<"c", "u", "r", "d">>,
                 <<"d", "a", "h", "i">>,
                 <<"y", "o", "g", "u", "r", "t">>,
                 <<"y", "o", "g", "h", "u", "r", "t">>>>, 5, "Dairy"),
    ExpiryRule(<<<<"p", "a", "n", "e", "e", "r">>,
                 <<"c", "o", "t", "t", "a", "g", "e", " ", "c", "h", "e", "e", "s", "e">>>>, 3, "Dairy"),
    ExpiryRule(<<<<"b", "u", "t", "t", "e", "r">>,
                 <<"g", "h", "e", "e">>>>, 30, "Dairy"),
    ExpiryRule(<<<<"c", "h", "e", "e", "s", "e">>>>, 14, "Dairy"),
    ExpiryRule(<<<<"t", "o", "m", "a", "t", "o">>,
                 <<"t", "a", "m", "a", "t", "a", "r">>>>, 5, "Vegetables"),
    ExpiryRule(<<<<"p", "o", "t", "a", "t", "o">>,
                 <<"a", "l", "o", "o">>>>, 14, "Vegetables"),
    ExpiryRule(<<<<"o", "n", "i", "o", "n">>,
                 <<"p", "y", "a", "z">>>>, 14, "Vegetables"),
    ExpiryRule(<<<<"c", "a", "r", "r", "o", "t">>,
                 <<"g", "a", "j", "a", "r">>>>, 7, "Vegetables"),
    ExpiryRule(<<<<"c", "a", "b", "b", "a", "g", "e">>,
                 <<"p", "a", "t", "t", "a", " ", "g", "o", "b", "i">>>>, 7, "Vegetables"),
    ExpiryRule(<<<<"c", "a", "u", "l", "i", "f", "l", "o", "w", "e", "r">>,
                 <<"p", "h", "o", "o", "l", " ", "g", "o", "b", "i">>>>, 5, "Vegetables"),
    ExpiryRule(<<<<"s", "p", "i", "n", "a", "c", "h">>,
                 <<"p", "a", "l", "a", "k">>>>, 3, "Vegetables"),
    ExpiryRule(<<<<"b", "r", "i", "n", "j", "a", "l">>,
                 <<"b", "a", "i", "n", "g", "a", "n">>,
                 <<"e", "g", "g", "p", "l", "a", "n", "t">>>>, 5, "Vegetables"),
    ExpiryRule(<<<<"c", "a", "p", "s", "i", "c", "u", "m">>,
                 <<"b", "e", "l", "l", " ", "p", "e", "p", "p", "e", "r">>,
                 <<"s", "h", "i", "m", "l", "a", " ", "m", "i", "r", "c", "h">>>>, 5, "Vegetables"),
    ExpiryRule(<<<<"a", "p", "p", "l", "e">>,
                 <<"s", "e", "b">>>>, 7, "Fruits"),
    ExpiryRule(<<<<"b", "a", "n", "a", "n", "a">>,
                 <<"k", "e", "l", "a">>>>, 3, "Fruits"),
    ExpiryRule(<<<<"o", "r", "a", "n", "g", "e">>,
                 <<"s", "a", "n", "t", "a", "r", "a">>>>, 7, "Fruits"),
    ExpiryRule(<<<<"m", "a", "n", "g", "o">>,
                 <<"a", "a", "m">>>>, 5, "Fruits"),
    ExpiryRule(<<<<"g", "r", "a", "p", "e", "s">>,
                 <<"a", "n", "g", "o", "o", "r">>>>, 5, "Fruits"),
    ExpiryRule(<<<<"c", "h", "i", "c", "k", "e", "n">>,
                 <<"m", "u", "r", "g", "i">>>>, 2, "Meat"),
    ExpiryRule(<<<<"m", "u", "t", "t", "o", "n">>,
                 <<"l", "a", "m", "b">>,
                 <<"g", "o", "a", "t">>>>, 2, "Meat"),
    ExpiryRule(<<<<"f", "i", "s", "h">>,
                 <<"m", "a", "c", "h", "l", "i">>>>, 1, "Meat"),
    ExpiryRule(<<<<"p", "r", "a", "w", "n">>,
                 <<"s", "h", "r", "i", "m", "p">>,
                 <<"j", "h", "i", "n", "g", "a">>>>, 1, "Meat"),
    ExpiryRule(<<<<"b", "r", "e", "a", "d">>,
                 <<"p", "a", "v">>>>, 3, "Bakery"),
    ExpiryRule(<<<<"c", "a", "k", "e">>>>, 3, "Bakery"),
    ExpiryRule(<<<<"e", "g", "g">>,
                 <<"a", "n", "d", "a">>>>, 14, "Eggs")
  >>

null == [null |-> TRUE]

UpperToLower ==
    [A |-> "a", B |-> "b", C |-> "c", D |-> "d", E |-> "e", F |-> "f", G |-> "g", H |-> "h", I |-> "i", J |-> "j", K |-> "k", L |-> "l", M |-> "m", N |-> "n", O |-> "o", P |-> "p", Q |-> "q", R |-> "r", S |-> "s", T |-> "t", U |-> "u", V |-> "v", W |-> "w", X |-> "x", Y |-> "y", Z |-> "z"]

\* a variant that leaves the text as typed
toLowerCaseOmitted(str) == str

\* String.prototype.toLowerCase
toLowerCase(str) ==
    [i \in 1..Len(str) |-> IF str[i] \in DOMAIN UpperToLower THEN UpperToLower[str[i]] ELSE str[i]]

\* str.includes(keyword)
includes(str, keyword) ==
    \E i \in 1..(Len(str) - Len(keyword) + 1) : SubSeq(str, i, i + Len(keyword) - 1) = keyword

\* a variant that looks at the first keyword of a rule only
FirstKeywordIncluded(rule, lowerName) == includes(lowerName, rule.keywords[1])

\* rule.keywords.some(keyword => lowerName.includes(keyword))
SomeKeywordIncluded(rule, lowerName) ==
    \E k \in 1..Len(rule.keywords) : includes(lowerName, rule.keywords[k])

\* a variant of the loop that does not return at the first match: the last
\* matching rule wins
FindLastFrom(rules, lowerName, i) ==
    IF \E j \in i..Len(rules) : SomeKeywordIncluded(rules[j], lowerName)
    THEN rules[CHOOSE j \in i..Len(rules) :
                  /\ SomeKeywordIncluded(rules[j], lowerName)
                  /\ \A k \in (j + 1)..Len(rules) : ~SomeKeywordIncluded(rules[k], lowerName)]
    ELSE null

\* the for loop over expiryRules, from rule i on
RECURSIVE FindFrom(_, _, _)
FindFrom(rules, lowerName, i) ==
    IF i > Len(rules) THEN null
    ELSE IF SomeKeywordIncluded(rules[i], lowerName) THEN rules[i]
    ELSE FindFrom(rules, lowerName, i + 1)

findExpiryRule(rules, itemName) == FindFrom(rules, toLowerCase(itemName), 1)

DefaultDays == 7

\* a variant that also falls back for a rule of a single day
DaysToAddOverOneDay(rule) ==
    IF rule = null THEN DefaultDays
    ELSE IF rule.daysUntilExpiry <= 1 THEN DefaultDays
    ELSE rule.daysUntilExpiry

\* rule?.daysUntilExpiry || 7
DaysToAdd(rule) ==
    IF rule = null THEN DefaultDays
    ELSE IF rule.daysUntilExpiry = 0 THEN DefaultDays
    ELSE rule.daysUntilExpiry

\* a variant that sets the day of the month to the number of days alone
AddDaysFromMonthStart(purchaseDate, daysToAdd) == setDate(purchaseDate, Int32(daysToAdd))

\* const expiryDate = new Date(purchaseDate); expiryDate.setDate(expiryDate.getDate() + daysToAdd)
AddDays(purchaseDate, daysToAdd) == setDate(purchaseDate, Int32(getDate(purchaseDate) + daysToAdd))

\* a variant that advances the caller's Date object itself instead of a copy
PurchaseDateAdvanced(purchaseDate, daysToAdd) ==
    IF purchaseDate = undefined THEN undefined ELSE AddDays(purchaseDate, daysToAdd)

\* the caller's purchaseDate object once the call is over: expiryDate is a
\* new Date copied from it, and only the copy is advanced
PurchaseDateAfterCall(purchaseDate, daysToAdd) == purchaseDate

\* calculateExpiryDate(itemName, purchaseDate = new Date())
calculateExpiryDate(rules, clock, itemName, purchaseDate) ==
    AddDays(IF purchaseDate = undefined THEN clock ELSE purchaseDate,
            DaysToAdd(findExpiryRule(rules, itemName)))

\* the words item names are made of: names of no rule, keywords in other
\* cases, a one-day rule (fish), a keyword inside a longer word (apple in
\* Pineapple), words holding keywords of two rules (cheese and cake, butter
\* and milk) and the two halves of a keyword with a space in it
Vocabulary ==
    {<<"X", "y", "z", "z", "y">>,
     <<"A", "l", "o", "o">>,
     <<"M", "i", "l", "k">>,
     <<"G", "h", "e", "e">>,
     <<"F", "I", "S", "H">>,
     <<"P", "i", "n", "e", "a", "p", "p", "l", "e">>,
     <<"c", "h", "e", "e", "s", "e", "c", "a", "k", "e">>,
     <<"B", "U", "T", "T", "E", "R", "M", "I", "L", "K">>,
     <<"b", "e", "l", "l">>,
     <<"p", "e", "p", "p", "e", "r">>}

(***************************************************************************)
(* Date texts.  The application stores dates as "YYYY-MM-DD" texts: it     *)
(* parses them with new Date(text), which reads a date-only text as        *)
(* midnight UTC, and writes them with toISOString().split('T')[0], the UTC *)
(* calendar day of the instant.  A Date of the model holds local time, so  *)
(* both conversions take the zone: the offset of local time from UTC, in   *)
(* instants of the clock.                                                  *)
(***************************************************************************)
Digits == <<"0", "1", "2", "3", "4", "5", "6", "7", "8", "9">>

IsDigit(c) == \E n \in 1..10 : Digits[n] = c

DigitValue(c) == (CHOOSE n \in 1..10 : Digits[n] = c) - 1

RECURSIVE DigitsValue(_)
DigitsValue(text) ==
    IF Len(text) = 0 THEN 0
    ELSE 10 * DigitsValue(SubSeq(text, 1, Len(text) - 1)) + DigitValue(text[Len(text)])

\* "YYYY-MM-DD"
IsDateOnlyForm(text) ==
    /\ Len(text) = 10
    /\ text[5] = "-" /\ text[8] = "-"
    /\ \A i \in {1, 2, 3, 4, 6, 7, 9, 10} : IsDigit(text[i])

\* the Date of the instant that is (day, instant of the day) in UTC
LocalDate(utcDay, utcTod, zone) ==
    [valid |-> TRUE,
     day |-> (utcDay * TicksPerDay + utcTod + zone) \div TicksPerDay,
     tod |-> (utcDay * TicksPerDay + utcTod + zone) % TicksPerDay]

DateOnly(year, month, date, zone) ==
    IF month \in 1..12 /\ date >= 1 /\ DateFromDay(MakeDay(year, month - 1, date)) = date
    THEN LocalDate(MakeDay(year, month - 1, date), 0, zone)
    ELSE InvalidDate

\* new Date(text): a date-only text is midnight UTC of that day; the other
\* texts of the model hold no date at all and give an Invalid Date
DateParse(text, zone) ==
    IF IsDateOnlyForm(text)
    THEN DateOnly(DigitsValue(SubSeq(text, 1, 4)), DigitsValue(SubSeq(text, 6, 7)),
                  DigitsValue(SubSeq(text, 9, 10)), zone)
    ELSE InvalidDate

TwoDigits(n) == <<Digits[(n \div 10) + 1], Digits[(n % 10) + 1]>>

FourDigits(n) == TwoDigits(n \div 100) \o TwoDigits(n % 100)

UTCDay(D, zone) == (D.day * TicksPerDay + D.tod - zone) \div TicksPerDay

RangeError == [threw |-> "RangeError"]

\* D.toISOString().split('T')[0]; toISOString throws on an Invalid Date
ISODate(D, zone) ==
    IF ~D.valid THEN RangeError
    ELSE FourDigits(YearFromDay(UTCDay(D, zone))) \o <<"-">>
         \o TwoDigits(MonthFromDay(UTCDay(D, zone)) + 1) \o <<"-">>
         \o TwoDigits(DateFromDay(UTCDay(D, zone)))

\* D.setHours(0, 0, 0, 0)
setHoursZero(D) == IF D.valid THEN [D EXCEPT !.tod = 0] ELSE D

(***************************************************************************)
(* Browser notifications.  What a function displays is the sequence of the *)
(* Notification objects it constructs.                                     *)
(***************************************************************************)
Permissions == {"default", "granted", "denied"}

Notification(title, body) ==
    [title |-> title, body |-> body, icon |-> "/favicon.ico", badge |-> "/favicon.ico"]

showNotificationUnlessDenied(permission, title, body) ==
    IF permission # "denied" THEN <<Notification(title, body)>> ELSE << >>

showNotification(permission, title, body) ==
    IF permission = "granted" THEN <<Notification(title, body)>> ELSE << >>

\* Math.floor((expiryDate.getTime() - today.getTime()) / 86400000) of two
\* local midnights; NaN for an Invalid Date
DaysUntilExpiry(expiryDate, today) ==
    IF expiryDate.valid THEN Int32(expiryDate.day - today.day) ELSE NaN

ExpiringSoon(item, today, zone) ==
    LET daysUntilExpiry == DaysUntilExpiry(setHoursZero(DateParse(item.expiry_date, zone)), today)
    IN  daysUntilExpiry.kind # "nan" /\ daysUntilExpiry.v >= 0 /\ daysUntilExpiry.v <= 2

\* names.join(', ')
RECURSIVE JoinNames(_)
JoinNames(items) ==
    IF Len(items) = 0 THEN << >>
    ELSE IF Len(items) = 1 THEN items[1].name
    ELSE items[1].name \o <<",", " ">> \o JoinNames(Tail(items))

ExpiringItemsBody(itemNames) ==
    [template |-> "These items are expiring soon: ${itemNames}", itemNames |-> itemNames]

checkExpiringItems(permission, clock, zone, items) ==
    LET today == setHoursZero(clock)
        expiringSoon == SelectSeq(items, LAMBDA item : ExpiringSoon(item, today, zone))
    IN  IF Len(expiringSoon) > 0
        THEN showNotification(permission, "Food Items Expiring Soon!",
                              ExpiringItemsBody(JoinNames(expiringSoon)))
        ELSE << >>

\* requestNotificationPermission in a browser that has notifications: the
\* permission after the call and the value returned, the user answering the
\* browser's prompt with answer when the prompt is shown
requestNotificationPermission(permission, answer) ==
    IF permission = "granted" THEN [permission |-> permission, result |-> TRUE]
    ELSE IF permission # "denied" THEN [permission |-> answer, result |-> answer = "granted"]
    ELSE [permission |-> permission, result |-> FALSE]

(***************************************************************************)
(* The produce scanner page: the produce type it holds, set from the       *)
(* selection list, from a decoded QR text or by a reset, and the           *)
(* prediction it asks for.                                                 *)
(***************************************************************************)
LowerToUpper ==
    [a |-> "A", b |-> "B", c |-> "C", d |-> "D", e |-> "E", f |-> "F", g |-> "G", h |-> "H",
     i |-> "I", j |-> "J", k |-> "K", l |-> "L", m |-> "M", n |-> "N", o |-> "O", p |-> "P",
     q |-> "Q", r |-> "R", s |-> "S", t |-> "T", u |-> "U", v |-> "V", w |-> "W", x |-> "X",
     y |-> "Y", z |-> "Z"]

\* String.prototype.toUpperCase
toUpperCase(str) ==
    [i \in 1..Len(str) |-> IF str[i] \in DOMAIN LowerToUpper THEN LowerToUpper[str[i]] ELSE str[i]]

WhiteSpace == {" ", "\t", "\n"}

RECURSIVE trimStart(_)
trimStart(str) ==
    IF Len(str) > 0 /\ str[1] \in WhiteSpace THEN trimStart(Tail(str)) ELSE str

RECURSIVE trimEnd(_)
trimEnd(str) ==
    IF Len(str) > 0 /\ str[Len(str)] \in WhiteSpace THEN trimEnd(SubSeq(str, 1, Len(str) - 1))
    ELSE str

\* String.prototype.trim
trim(str) == trimEnd(trimStart(str))

\* the string a sequence of characters spells
RECURSIVE Text(_)
Text(str) == IF Len(str) = 0 THEN "" ELSE str[1] \o Text(Tail(str))

\* the characters of the keys and names of the produce table
Letters ==
    [apple |-> <<"a", "p", "p", "l", "e">>, banana |-> <<"b", "a", "n", "a", "n", "a">>,
     orange |-> <<"o", "r", "a", "n", "g", "e">>, mango |-> <<"m", "a", "n", "g", "o">>,
     grapes |-> <<"g", "r", "a", "p", "e", "s">>,
     strawberry |-> <<"s", "t", "r", "a", "w", "b", "e", "r", "r", "y">>,
     watermelon |-> <<"w", "a", "t", "e", "r", "m", "e", "l", "o", "n">>,
     papaya |-> <<"p", "a", "p", "a", "y", "a">>,
     pineapple |-> <<"p", "i", "n", "e", "a", "p", "p", "l", "e">>,
     avocado |-> <<"a", "v", "o", "c", "a", "d", "o">>,
     tomato |-> <<"t", "o", "m", "a", "t", "o">>, potato |-> <<"p", "o", "t", "a", "t", "o">>,
     onion |-> <<"o", "n", "i", "o", "n">>, carrot |-> <<"c", "a", "r", "r", "o", "t">>,
     spinach |-> <<"s", "p", "i", "n", "a", "c", "h">>,
     broccoli |-> <<"b", "r", "o", "c", "c", "o", "l", "i">>,
     cucumber |-> <<"c", "u", "c", "u", "m", "b", "e", "r">>,
     capsicum |-> <<"c", "a", "p", "s", "i", "c", "u", "m">>,
     cabbage |-> <<"c", "a", "b", "b", "a", "g", "e">>,
     cauliflower |-> <<"c", "a", "u", "l", "i", "f", "l", "o", "w", "e", "r">>,
     lettuce |-> <<"l", "e", "t", "t", "u", "c", "e">>,
     eggplant |-> <<"e", "g", "g", "p", "l", "a", "n", "t">>,
     Apple |-> <<"A", "p", "p", "l", "e">>, Banana |-> <<"B", "a", "n", "a", "n", "a">>,
     Orange |-> <<"O", "r", "a", "n", "g", "e">>, Mango |-> <<"M", "a", "n", "g", "o">>,
     Grapes |-> <<"G", "r", "a", "p", "e", "s">>,
     Strawberry |-> <<"S", "t", "r", "a", "w", "b", "e", "r", "r", "y">>,
     Watermelon |-> <<"W", "a", "t", "e", "r", "m", "e", "l", "o", "n">>,
     Papaya |-> <<"P", "a", "p", "a", "y", "a">>,
     Pineapple |-> <<"P", "i", "n", "e", "a", "p", "p", "l", "e">>,
     Avocado |-> <<"A", "v", "o", "c", "a", "d", "o">>,
     Tomato |-> <<"T", "o", "m", "a", "t", "o">>, Potato |-> <<"P", "o", "t", "a", "t", "o">>,
     Onion |-> <<"O", "n", "i", "o", "n">>, Carrot |-> <<"C", "a", "r", "r", "o", "t">>,
     Spinach |-> <<"S", "p", "i", "n", "a", "c", "h">>,
     Broccoli |-> <<"B", "r", "o", "c", "c", "o", "l", "i">>,
     Cucumber |-> <<"C", "u", "c", "u", "m", "b", "e", "r">>,
     Capsicum |-> <<"C", "a", "p", "s", "i", "c", "u", "m">>,
     Cabbage |-> <<"C", "a", "b", "b", "a", "g", "e">>,
     Cauliflower |-> <<"C", "a", "u", "l", "i", "f", "l", "o", "w", "e", "r">>,
     Lettuce |-> <<"L", "e", "t", "t", "u", "c", "e">>,
     Eggplant |-> <<"E", "g", "g", "p", "l", "a", "n", "t">>]

qrProduceMapping ==
    [APPLE |-> "apple", BANANA |-> "banana", ORANGE |-> "orange", MANGO |-> "mango",
     GRAPES |-> "grapes", STRAWBERRY |-> "strawberry", WATERMELON |-> "watermelon",
     PAPAYA |-> "papaya", PINEAPPLE |-> "pineapple", AVOCADO |-> "avocado", TOMATO |-> "tomato",
     POTATO |-> "potato", ONION |-> "onion", CARROT |-> "carrot", SPINACH |-> "spinach",
     BROCCOLI |-> "broccoli", CUCUMBER |-> "cucumber", CAPSICUM |-> "capsicum",
     CABBAGE |-> "cabbage", CAULIFLOWER |-> "cauliflower", LETTUCE |-> "lettuce",
     EGGPLANT |-> "eggplant"]

\* Object.keys(produceDatabase), in the order of the literal
ObjectKeys ==
    <<"apple", "banana", "orange", "mango", "grapes", "strawberry", "watermelon", "papaya",
      "pineapple", "avocado", "tomato", "potato", "onion", "carrot", "spinach", "broccoli",
      "cucumber", "capsicum", "cabbage", "cauliflower", "lettuce", "eggplant">>

\* a JavaScript value with its type: a string (held whole, or as its
\* characters: a text), a number, NaN, a boolean, null, undefined, a Date,
\* or an object (a function is one) with its members
StringValue(s) == [kind |-> "string", value |-> s]
TextValue(str) == [kind |-> "text", value |-> str]
NumberValue(n) == [kind |-> "number", value |-> n]
NaNValue == [kind |-> "nan"]
BooleanValue(b) == [kind |-> "boolean", value |-> b]
NullValue == [kind |-> "null"]
UndefinedValue == [kind |-> "undefined"]
DateValue(D) == [kind |-> "date", value |-> D]
ObjectValue(o) == [kind |-> "object", value |-> o]

\* the value as a condition
IsTruthy(v) ==
    CASE v.kind \in {"object", "date"} -> TRUE
      [] v.kind = "string" -> v.value # ""
      [] v.kind = "text" -> Len(v.value) > 0
      [] v.kind = "number" -> v.value # 0
      [] v.kind = "boolean" -> v.value
      [] OTHER -> FALSE

\* v || d
OrElse(v, d) == IF IsTruthy(v) THEN v ELSE d

\* qrProduceMapping[normalizedText]: an object literal, so a text it does
\* not own is looked up on Object.prototype
MappedProduce(normalizedText) ==
    IF normalizedText \in DOMAIN qrProduceMapping THEN StringValue(qrProduceMapping[normalizedText])
    ELSE IF normalizedText \in DOMAIN ObjectPrototype THEN ObjectValue(ObjectPrototype[normalizedText])
    ELSE UndefinedValue

\* key.toUpperCase() === normalizedText || produceDatabase[key].name.toUpperCase() === normalizedText
KeyOrNameIs(db, key, normalizedText) ==
    \/ Text(toUpperCase(Letters[key])) = normalizedText
    \/ Text(toUpperCase(Letters[db[key].name])) = normalizedText

\* Object.keys(produceDatabase).find(...): the first key that passes, or undefined
FoundProduce(db, normalizedText) ==
    LET passing == {i \in 1..Len(ObjectKeys) : ObjectKeys[i] \in DOMAIN db /\ KeyOrNameIs(db, ObjectKeys[i], normalizedText)}
    IN  IF passing = {} THEN UndefinedValue
        ELSE StringValue(ObjectKeys[CHOOSE i \in passing : \A j \in passing : i <= j])

NormalizedText(decodedText) == Text(trim(toUpperCase(decodedText)))

\* qrProduceMapping[normalizedText] || Object.keys(produceDatabase).find(...)
ProduceKeyOf(db, normalizedText) ==
    IF IsTruthy(MappedProduce(normalizedText)) THEN MappedProduce(normalizedText)
    ELSE FoundProduce(db, normalizedText)

\* a variant that selects the decoded text when no produce is found
SelectedAfterQrOrText(selected, produceKey, normalizedText) ==
    IF IsTruthy(produceKey) THEN (IF produceKey.kind = "string" THEN produceKey.value ELSE produceKey)
    ELSE normalizedText

\* selectedProduce after handleQrSuccess: set only when a produce key was found
SelectedAfterQr(selected, produceKey, normalizedText) ==
    IF IsTruthy(produceKey) THEN (IF produceKey.kind = "string" THEN produceKey.value ELSE produceKey)
    ELSE selected

\* the toast handleQrSuccess shows
QrToast(db, produceKey, decodedText) ==
    IF IsTruthy(produceKey)
    THEN [title |-> "QR Code Detected!",
          found |-> IF produceKey.kind = "string" THEN StringField(GetProperty(db, produceKey.value), "name")
                    ELSE "undefined"]
    ELSE [title |-> "Unknown Product", qr |-> decodedText]

\* checkNotificationPermission, when the page is mounted
checkNotificationPermission(permission, enabled) ==
    IF permission = "granted" THEN TRUE ELSE enabled

\* the notification calculatePrediction asks for when reminders are enabled
\* and the produce spoils within three days
PredictionBody(produce, result) ==
    [template |-> "Your ${produce.name} will expire in ${result.daysLeft} day(s) (${rotDate})",
     name |-> StringField(produce, "name"), daysLeft |-> result.daysLeft, rotDate |-> result.rotDate]

PredictionNotification(db, permission, enabled, selected, result) ==
    IF enabled /\ LessEq(result.daysLeft, 3)
    THEN showNotification(permission, "${produce.name} Expiring Soon!",
                          PredictionBody(GetProperty(db, selected), result))
    ELSE << >>

\* calculatePrediction: nothing without a selection; otherwise predictRotDate
\* is invoked with the selection, its exception caught and logged
calculatePrediction(db, clock, permission, enabled, selected, conditions) ==
    IF selected = "" THEN [invoked |-> FALSE, created |-> << >>]
    ELSE LET result == predictRotDate(db, clock, selected, conditions)
         IN  [invoked |-> TRUE, produceKey |-> selected, result |-> result,
              created |-> IF result.threw THEN << >>
                          ELSE PredictionNotification(db, permission, enabled, selected, result)]

(***************************************************************************)
(* JSON.parse, for the JSON texts without arrays, fractions, exponents and *)
(* escape sequences: objects (nested too), strings, integers, true, false  *)
(* and null, with white space between the tokens.  A parse is the value    *)
(* read and the position after it, or a failure (a SyntaxError).           *)
(***************************************************************************)
JsonWhiteSpace == {" ", "\t", "\n", "\r"}

SyntaxError == [ok |-> FALSE]

Parsed(value, next) == [ok |-> TRUE, value |-> value, next |-> next]

RECURSIVE SkipWhiteSpace(_, _)
SkipWhiteSpace(str, i) ==
    IF i <= Len(str) /\ str[i] \in JsonWhiteSpace THEN SkipWhiteSpace(str, i + 1) ELSE i

HasAt(str, i, token) ==
    i + Len(token) - 1 <= Len(str) /\ SubSeq(str, i, i + Len(token) - 1) = token

CharAt(str, i) == IF i >= 1 /\ i <= Len(str) THEN str[i] ELSE ""

\* the position after the digits that start at i
RECURSIVE DigitsEnd(_, _)
DigitsEnd(str, i) == IF i <= Len(str) /\ IsDigit(str[i]) THEN DigitsEnd(str, i + 1) ELSE i

JsonNumber(str, i) ==
    LET first == IF CharAt(str, i) = "-" THEN i + 1 ELSE i
        end == DigitsEnd(str, first)
        magnitude == DigitsValue(SubSeq(str, first, end - 1))
    IN  IF end = first THEN SyntaxError
        ELSE IF end - first > 1 /\ str[first] = "0" THEN SyntaxError
        ELSE IF CharAt(str, end) \in {".", "e", "E"} THEN SyntaxError
        ELSE Parsed(NumberValue(IF first > i THEN -magnitude ELSE magnitude), end)

\* the position of the quote that closes the string whose characters start at i
RECURSIVE StringEnd(_, _)
StringEnd(str, i) ==
    IF i > Len(str) \/ str[i] = "\\" \/ str[i] = "\n" THEN 0
    ELSE IF str[i] = "\"" THEN i
    ELSE StringEnd(str, i + 1)

JsonString(str, i) ==
    IF CharAt(str, i) # "\"" \/ StringEnd(str, i + 1) = 0 THEN SyntaxError
    ELSE Parsed(TextValue(SubSeq(str, i + 1, StringEnd(str, i + 1) - 1)), StringEnd(str, i + 1) + 1)

NoMembers == [key \in {} |-> UndefinedValue]

\* obj with obj[key] = value, a repeated key keeping its last value
WithMember(obj, key, value) == (key :> value) @@ obj

RECURSIVE JsonValue(_, _), JsonMembers(_, _, _)
JsonValue(str, from) ==
    LET i == SkipWhiteSpace(str, from)
    IN  IF i > Len(str) THEN SyntaxError
        ELSE IF str[i] = "{"
        THEN (IF CharAt(str, SkipWhiteSpace(str, i + 1)) = "}"
              THEN Parsed(ObjectValue(NoMembers), SkipWhiteSpace(str, i + 1) + 1)
              ELSE JsonMembers(str, SkipWhiteSpace(str, i + 1), NoMembers))
        ELSE IF str[i] = "\"" THEN JsonString(str, i)
        ELSE IF HasAt(str, i, <<"t", "r", "u", "e">>) THEN Parsed(BooleanValue(TRUE), i + 4)
        ELSE IF HasAt(str, i, <<"f", "a", "l", "s", "e">>) THEN Parsed(BooleanValue(FALSE), i + 5)
        ELSE IF HasAt(str, i, <<"n", "u", "l", "l">>) THEN Parsed(NullValue, i + 4)
        ELSE JsonNumber(str, i)

\* the members of an object from position i on, after those in obj
JsonMembers(str, i, obj) ==
    LET key == JsonString(str, i)
        colon == SkipWhiteSpace(str, key.next)
        member == JsonValue(str, colon + 1)
        after == SkipWhiteSpace(str, member.next)
    IN  IF ~key.ok \/ CharAt(str, colon) # ":" \/ ~member.ok THEN SyntaxError
        ELSE IF CharAt(str, after) = ","
        THEN JsonMembers(str, SkipWhiteSpace(str, after + 1),
                         WithMember(obj, Text(key.value.value), member.value))
        ELSE IF CharAt(str, after) = "}"
        THEN Parsed(ObjectValue(WithMember(obj, Text(key.value.value), member.value)), after + 1)
        ELSE SyntaxError

\* JSON.parse(text)
JSONparse(text) ==
    IF JsonValue(text, 1).ok /\ SkipWhiteSpace(text, JsonValue(text, 1).next) = Len(text) + 1
    THEN JsonValue(text, 1)
    ELSE SyntaxError

\* v.field: a member of an object, or undefined; the fields the scanner reads
\* are members of no prototype
Member(v, field) ==
    IF v.kind = "object" /\ field \in DOMAIN v.value THEN v.value[field] ELSE UndefinedValue

(***************************************************************************)
(* The QR scanner: parseQRData and handleScanSuccess.                      *)
(***************************************************************************)
\* str.split(separator), the separator one character
RECURSIVE SplitFrom(_, _, _, _)
SplitFrom(str, separator, i, part) ==
    IF i > Len(str) THEN <<part>>
    ELSE IF str[i] = separator THEN <<part>> \o SplitFrom(str, separator, i + 1, << >>)
    ELSE SplitFrom(str, separator, i + 1, Append(part, str[i]))

split(str, separator) == SplitFrom(str, separator, 1, << >>)

HexDigits == <<"0", "1", "2", "3", "4", "5", "6", "7", "8", "9", "a", "b", "c", "d", "e", "f">>

IsHexDigit(c) == \E n \in 1..16 : HexDigits[n] = c

RECURSIVE HexValue(_)
HexValue(str) ==
    IF Len(str) = 0 THEN 0
    ELSE 16 * HexValue(SubSeq(str, 1, Len(str) - 1))
         + (CHOOSE n \in 1..16 : HexDigits[n] = str[Len(str)]) - 1

RECURSIVE HexDigitsEnd(_, _)
HexDigitsEnd(str, i) ==
    IF i <= Len(str) /\ IsHexDigit(str[i]) THEN HexDigitsEnd(str, i + 1) ELSE i

\* parseInt(text): white space, a sign, then the digits up to the first
\* character that is none, in base 16 after 0x; NaN without a digit
parseInt(text) ==
    LET str == toLowerCase(trimStart(text))
        first == IF CharAt(str, 1) \in {"-", "+"} THEN 2 ELSE 1
        sign == IF CharAt(str, 1) = "-" THEN -1 ELSE 1
    IN  IF HasAt(str, first, <<"0", "x">>)
        THEN (IF HexDigitsEnd(str, first + 2) = first + 2 THEN NaNValue
              ELSE NumberValue(sign * HexValue(SubSeq(str, first + 2, HexDigitsEnd(str, first + 2) - 1))))
        ELSE IF DigitsEnd(str, first) = first THEN NaNValue
        ELSE NumberValue(sign * DigitsValue(SubSeq(str, first, DigitsEnd(str, first) - 1)))

\* parseInt(value.trim()) || 1
QtyField(value) == OrElse(parseInt(trim(value)), NumberValue(1))

\* one pair of the key=value form taken into data
WithPair(data, pair) ==
    LET parts == split(pair, "=")
        key == parts[1]
        value == IF Len(parts) >= 2 THEN parts[2] ELSE << >>
        k == Text(toLowerCase(trim(key)))
    IN  IF Len(key) = 0 \/ Len(value) = 0 THEN data
        ELSE IF k \in {"name", "category", "expiry", "mfg", "brand"}
        THEN WithMember(data, k, TextValue(trim(value)))
        ELSE IF k = "qty" THEN WithMember(data, k, QtyField(value))
        ELSE data

RECURSIVE WithPairs(_, _)
WithPairs(data, pairs) ==
    IF Len(pairs) = 0 THEN data ELSE WithPairs(WithPair(data, Head(pairs)), Tail(pairs))

PlainText(rawData) ==
    IF Len(trim(rawData)) > 0 THEN ObjectValue([name |-> TextValue(trim(rawData))]) ELSE NullValue

KeyValuePairs(rawData) == WithPairs(NoMembers, split(rawData, "|"))

\* parseQRData: whatever JSON.parse reads; failing that, the key=value
\* pairs if any of the six keys is set; failing that, the text as a name
parseQRData(rawData) ==
    IF JSONparse(rawData).ok THEN JSONparse(rawData).value
    ELSE IF includes(rawData, <<"=">>) /\ DOMAIN KeyValuePairs(rawData) # {}
    THEN ObjectValue(KeyValuePairs(rawData))
    ELSE PlainText(rawData)

\* the digits of a natural number
RECURSIVE NaturalText(_)
NaturalText(n) == IF n < 10 THEN <<Digits[n + 1]>> ELSE NaturalText(n \div 10) \o <<Digits[(n % 10) + 1]>>

\* ${v} inside a template literal
TemplateText(v) ==
    CASE v.kind = "text" -> v.value
      [] v.kind = "number" -> (IF v.value < 0 THEN <<"-">> \o NaturalText(-v.value) ELSE NaturalText(v.value))
      [] v.kind = "boolean" -> (IF v.value THEN <<"t", "r", "u", "e">> ELSE <<"f", "a", "l", "s", "e">>)
      [] OTHER -> <<"[", "o", "b", "j", "e", "c", "t", " ", "O", "b", "j", "e", "c", "t", "]">>

MillisecondsPerDay == 86400000

\* new Date(v): a text is parsed, a number counts milliseconds from the
\* epoch, true is one millisecond, an object names no date
NewDateOf(v, zone) ==
    CASE v.kind = "text" -> DateParse(v.value, zone)
      [] v.kind = "number" ->
            LocalDate(v.value \div MillisecondsPerDay,
                      ((v.value % MillisecondsPerDay) * TicksPerDay) \div MillisecondsPerDay, zone)
      [] v.kind = "boolean" -> LocalDate(0, 0, zone)
      [] OTHER -> InvalidDate

Other == <<"O", "t", "h", "e", "r">>

\* the item handleScanSuccess hands on
ItemData(productData, zone) ==
    [name |-> IF IsTruthy(Member(productData, "brand"))
              THEN TextValue(TemplateText(Member(productData, "brand")) \o <<" ">>
                             \o TemplateText(Member(productData, "name")))
              ELSE Member(productData, "name"),
     category |-> OrElse(Member(productData, "category"), TextValue(Other)),
     quantity |-> OrElse(Member(productData, "qty"), NumberValue(1)),
     expiryDate |-> IF IsTruthy(Member(productData, "expiry"))
                    THEN DateValue(NewDateOf(Member(productData, "expiry"), zone))
                    ELSE UndefinedValue,
     manufacturingDate |-> IF IsTruthy(Member(productData, "mfg"))
                           THEN DateValue(NewDateOf(Member(productData, "mfg"), zone))
                           ELSE UndefinedValue]

(***************************************************************************)
(* The page that inserts food items: handleQRScanSuccess for a scanned QR  *)
(* code, handleItemsScanned for a receipt and for the manual form.  What a *)
(* handler hands to the persistence collaborator is the sequence of its    *)
(* insert payloads; an exception inside the handler is caught and nothing  *)
(* is inserted.                                                            *)
(***************************************************************************)
Threw(error) == [threw |-> TRUE, error |-> error, inserted |-> << >>]

Inserted(payloads) == [threw |-> FALSE, inserted |-> payloads]

\* a variant that always computes the expiry from the name
ExpiryDateCalculated(data, rules, clock) ==
    IF data.name.kind = "text"
    THEN DateValue(calculateExpiryDate(rules, clock, data.name.value, undefined))
    ELSE data.expiryDate

\* data.expiryDate || calculateExpiryDate(data.name)
ExpiryDateOf(data, rules, clock) ==
    IF IsTruthy(data.expiryDate) THEN data.expiryDate
    ELSE DateValue(calculateExpiryDate(rules, clock, data.name.value, undefined))

handleQRScanSuccess(rules, clock, zone, data) ==
    IF ~IsTruthy(data.expiryDate) /\ data.name.kind # "text"
    THEN Threw("TypeError")
    ELSE LET expiryDate == ExpiryDateOf(data, rules, clock).value
             mfgDate == OrElse(data.manufacturingDate, DateValue(clock)).value
         IN  IF ~mfgDate.valid \/ ~expiryDate.valid THEN Threw("RangeError")
             ELSE Inserted(<<[user_id |-> "user.id",
                              name |-> data.name,
                              category |-> data.category,
                              purchase_date |-> ISODate(mfgDate, zone),
                              expiry_date |-> ISODate(expiryDate, zone),
                              quantity |-> data.quantity]>>)

\* handleScanSuccess: the item is handed to handleQRScanSuccess when the
\* parsed data has a name, and the text is reported invalid otherwise
handleScanSuccess(rules, clock, zone, decodedText) ==
    LET productData == parseQRData(decodedText)
    IN  IF IsTruthy(productData) /\ IsTruthy(Member(productData, "name"))
        THEN [productData |-> productData, accepted |-> TRUE,
              itemData |-> ItemData(productData, zone), toast |-> "Product Scanned!"]
             @@ handleQRScanSuccess(rules, clock, zone, ItemData(productData, zone))
        ELSE [productData |-> productData, accepted |-> FALSE, toast |-> "Invalid QR Code",
              threw |-> FALSE, inserted |-> << >>]

ScannedItemPayload(item, clock, zone) ==
    [user_id |-> "user.id",
     name |-> item.name,
     category |-> item.category,
     purchase_date |-> ISODate(clock, zone),
     expiry_date |-> ISODate(item.expiryDate.value, zone),
     quantity |-> OrElse(Member(ObjectValue(item), "quantity"), NumberValue(1))]

handleItemsScanned(clock, zone, scannedItems) ==
    IF \E i \in 1..Len(scannedItems) : ~scannedItems[i].expiryDate.value.valid
    THEN Threw("RangeError")
    ELSE Inserted([i \in 1..Len(scannedItems) |-> ScannedItemPayload(scannedItems[i], clock, zone)])

\* the receipt scanner: an item for every line of the recognised text that
\* matches an expiry rule
ReceiptItem(rules, clock, line) ==
    [name |-> TextValue(trim(line)),
     category |-> StringValue(findExpiryRule(rules, line).category),
     expiryDate |-> DateValue(calculateExpiryDate(rules, clock, line, undefined))]

ReceiptItems(rules, clock, lines) ==
    LET perishable == SelectSeq(lines, LAMBDA line : Len(trim(line)) > 0 /\ findExpiryRule(rules, line) # null)
    IN  [i \in 1..Len(perishable) |-> ReceiptItem(rules, clock, perishable[i])]

processImage(rules, clock, zone, lines) ==
    IF Len(ReceiptItems(rules, clock, lines)) > 0
    THEN [toast |-> "Receipt Scanned!"] @@ handleItemsScanned(clock, zone, ReceiptItems(rules, clock, lines))
    ELSE [toast |-> "No items found", threw |-> FALSE, inserted |-> << >>]

\* the manual form as it is first shown and after a submission
EmptyForm ==
    [name |-> << >>, category |-> << >>, quantity |-> NumberValue(1), expiryDate |-> << >>,
     useAutoExpiry |-> TRUE]

\* the quantity field's onChange: parseInt(e.target.value) || 1
QuantityTyped(value) == OrElse(parseInt(value), NumberValue(1))

\* the browser submits the form only if its fields are valid: a name is
\* required, the quantity shown is no less than min={1}, and a date that is
\* entered is no earlier than min, the day of toISOString
FormIsValid(form, clock, zone) ==
    /\ Len(form.name) > 0
    /\ form.quantity.value >= 1
    /\ Len(form.expiryDate) > 0 =>
          UTCDay(DateParse(form.expiryDate, zone), zone) >= UTCDay(clock, zone)

ManualItem(form, rules, clock, zone) ==
    [name |-> TextValue(trim(form.name)),
     category |-> OrElse(TextValue(form.category), TextValue(Other)),
     expiryDate |-> IF form.useAutoExpiry \/ Len(form.expiryDate) = 0
                    THEN DateValue(calculateExpiryDate(rules, clock, form.name, undefined))
                    ELSE DateValue(DateParse(form.expiryDate, zone)),
     quantity |-> form.quantity]

\* handleSubmit, when the browser lets the submission through
handleSubmit(form, rules, clock, zone) ==
    IF Len(trim(form.name)) = 0 THEN [submitted |-> FALSE, threw |-> FALSE, inserted |-> << >>]
    ELSE [submitted |-> TRUE] @@ handleItemsScanned(clock, zone, <<ManualItem(form, rules, clock, zone)>>)

(***************************************************************************)
(* The statistics of the welcome banner.                                   *)
(***************************************************************************)
\* the sign of the difference of two local dates, field by field
compareLocalAsc(dateLeft, dateRight) ==
    IF dateLeft.day # dateRight.day
    THEN (IF dateLeft.day < dateRight.day THEN -1 ELSE 1)
    ELSE IF dateLeft.tod # dateRight.tod
    THEN (IF dateLeft.tod < dateRight.tod THEN -1 ELSE 1)
    ELSE 0

\* differenceInDays(dateLeft, dateRight) of date-fns: the number of full
\* days between two dates, NaN when either is an Invalid Date
differenceInDays(dateLeft, dateRight) ==
    IF ~dateLeft.valid \/ ~dateRight.valid THEN NaN
    ELSE LET sign == compareLocalAsc(dateLeft, dateRight)
             difference == Abs(dateLeft.day - dateRight.day)
             shifted == [dateLeft EXCEPT !.day = dateLeft.day - sign * difference]
             isLastDayNotFull == IF compareLocalAsc(shifted, dateRight) = -sign /\ sign # 0
                                 THEN 1 ELSE 0
         IN  Int32(sign * (difference - isLastDayNotFull))

\* days < 0
IsExpired(days) == days.kind # "nan" /\ days.v < 0

\* a variant that leaves out the items expiring today
IsExpiringSoonAfterToday(days) == days.kind # "nan" /\ days.v > 0 /\ days.v <= 3

\* days >= 0 && days <= 3
IsExpiringSoon(days) == days.kind # "nan" /\ days.v >= 0 /\ days.v <= 3

\* days > 3
IsSafe(days) == days.kind # "nan" /\ days.v > 3

\* items.filter(i => !i.is_consumed)
ActiveItems(items) == SelectSeq(items, LAMBDA i : ~i.is_consumed)

\* differenceInDays(new Date(i.expiry_date), today)
BannerDays(i, today, zone) == differenceInDays(DateParse(i.expiry_date, zone), today)

\* the stats object of the WelcomeBanner component rendered at the instant
\* clock
WelcomeBannerStats(clock, zone, items) ==
    LET today == clock
        activeItems == ActiveItems(items)
    IN  [expiringSoon |->
            Len(SelectSeq(activeItems, LAMBDA i : IsExpiringSoon(BannerDays(i, today, zone)))),
         expired |->
            Len(SelectSeq(activeItems, LAMBDA i : IsExpired(BannerDays(i, today, zone)))),
         safe |->
            Len(SelectSeq(activeItems, LAMBDA i : IsSafe(BannerDays(i, today, zone)))),
         total |-> Len(activeItems)]

(***************************************************************************)
(* The item tracker page: the list it holds, the rows of the food_items    *)
(* table, and the delete and consumed-toggle handlers.  A handler is an    *)
(* async function: it sends its request, awaits the answer and then        *)
(* continues with the foodItems value of the render that created it.       *)
(***************************************************************************)
\* no invocation in this place
Idle == [op |-> "idle"]

\* supabase.from('food_items').delete().eq('id', id)
RowsAfterDelete(rows, id) == {row \in rows : row.id # id}

\* supabase.from('food_items').update({ is_consumed: isConsumed }).eq('id', id)
RowsAfterUpdate(rows, id, isConsumed) ==
    {IF row.id = id THEN [row EXCEPT !.is_consumed = isConsumed] ELSE row : row \in rows}

\* foodItems.filter(item => item.id !== id)
WithoutItem(items, id) == SelectSeq(items, LAMBDA item : item.id # id)

\* foodItems.map(item => item.id === id ? { ...item, is_consumed: isConsumed } : item)
WithConsumed(items, id, isConsumed) ==
    [n \in 1..Len(items) |->
        IF items[n].id = id THEN [items[n] EXCEPT !.is_consumed = isConsumed] ELSE items[n]]

\* .select('*').order('expiry_date', { ascending: true }): the rows of the
\* model are kept in the order of their ids
RECURSIVE RowsInOrder(_, _)
RowsInOrder(rows, ids) ==
    IF Len(ids) = 0 THEN << >>
    ELSE (IF \E row \in rows : row.id = ids[1]
          THEN <<CHOOSE row \in rows : row.id = ids[1]>> ELSE << >>)
         \o RowsInOrder(rows, Tail(ids))

\* what handleDelete does once its request is answered
handleDeleteAnswered(request) ==
    IF request.answer = "error"
    THEN [set |-> FALSE, toast |-> [title |-> "Error", variant |-> "destructive"]]
    ELSE [set |-> TRUE, foodItems |-> WithoutItem(request.foodItems, request.id),
          toast |-> [title |-> "Item deleted", variant |-> "default"]]

\* what handleToggleConsumed does once its request is answered
handleToggleConsumedAnswered(request) ==
    IF request.answer = "error"
    THEN [set |-> FALSE, toast |-> [title |-> "Error", variant |-> "destructive"]]
    ELSE [set |-> TRUE,
          foodItems |-> WithConsumed(request.foodItems, request.id, request.isConsumed),
          toast |-> [title |-> IF request.isConsumed THEN "Marked as consumed"
                               ELSE "Marked as unconsumed",
                     variant |-> "default"]]

(***************************************************************************)
(* The produce scanner page: saving a prediction to the inventory.         *)
(* saveToInventory is an async function with two awaits, the session       *)
(* lookup and the insert; it continues after each with the prediction, the *)
(* selection and the reminder switch of the render that created it.        *)
(***************************************************************************)
\* if (!prediction || !selectedProduce) return
NothingToSave(prediction, selected) == prediction = null \/ selected = ""

\* the values saveToInventory closes over, awaiting supabase.auth.getUser()
AwaitingUser(prediction, selected, enabled) ==
    [op |-> "saveToInventory", awaits |-> "getUser", prediction |-> prediction,
     selectedProduce |-> selected, notificationsEnabled |-> enabled]

\* the row handed to the insert; produce.name of an absent produce and
\* toISOString of an Invalid Date throw
InsertPayload(db, clock, zone, selected, prediction) ==
    LET produce == GetProperty(db, selected)
    IN  IF produce = undefined THEN [threw |-> "TypeError"]
        ELSE IF ~prediction.rotDate.valid THEN RangeError
        ELSE [threw |-> "",
              name |-> StringField(produce, "name"),
              category |-> "Produce",
              purchase_date |-> ISODate(clock, zone),
              expiry_date |-> ISODate(prediction.rotDate, zone)]

SaveFailedToast == [title |-> "Save Failed", variant |-> "destructive"]

\* saveToInventory once the session lookup is answered, user being whether
\* a user is signed in
saveToInventoryWithUser(db, clock, zone, saving, user) ==
    IF ~user
    THEN [outcome |-> "login required", isSaving |-> FALSE, sent |-> << >>,
          toast |-> [title |-> "Login Required", variant |-> "destructive"]]
    ELSE LET payload == InsertPayload(db, clock, zone, saving.selectedProduce, saving.prediction)
         IN  IF payload.threw # ""
             THEN [outcome |-> "failed", isSaving |-> FALSE, sent |-> << >>,
                   toast |-> SaveFailedToast]
             ELSE [outcome |-> "insert sent", isSaving |-> TRUE, sent |-> <<payload>>,
                   toast |-> [title |-> "", variant |-> "default"]]

\* the notification saveToInventory asks for when reminders are enabled and
\* the produce spoils within three days
SaveNotification(db, permission, saving) ==
    IF saving.notificationsEnabled /\ LessEq(saving.prediction.daysLeft, 3)
    THEN showNotification(permission, "${produce.name} Added - Expires Soon!",
                          PredictionBody(GetProperty(db, saving.selectedProduce),
                                         saving.prediction))
    ELSE << >>

\* a variant without the finally block: a failed insert leaves isSaving set
saveToInventoryInsertedNoFinally(db, permission, saving, isSaved, error) ==
    IF error
    THEN [outcome |-> "failed", isSaving |-> TRUE, isSaved |-> isSaved, created |-> << >>,
          toast |-> SaveFailedToast]
    ELSE [outcome |-> "saved", isSaving |-> FALSE, isSaved |-> TRUE,
          created |-> SaveNotification(db, permission, saving),
          toast |-> [title |-> "Saved to Inventory!", variant |-> "default"]]

\* saveToInventory once the insert is answered, error being whether the
\* backend reported one
saveToInventoryInserted(db, permission, saving, isSaved, error) ==
    IF error
    THEN [outcome |-> "failed", isSaving |-> FALSE, isSaved |-> isSaved, created |-> << >>,
          toast |-> SaveFailedToast]
    ELSE [outcome |-> "saved", isSaving |-> FALSE, isSaved |-> TRUE,
          created |-> SaveNotification(db, permission, saving),
          toast |-> [title |-> "Saved to Inventory!", variant |-> "default"]]

(***************************************************************************)
(* The produce scanner page: the QR decoder.  qrScanner is what            *)
(* qrScannerRef holds: nothing, or a decoder that is idle, starting or     *)
(* scanning.  startQrScanning is memoized on [toast] and the unmount       *)
(* effect runs once, so the handleQrSuccess handed to the decoder and the  *)
(* cleanup both call the stopQrScanning of the first render.               *)
(***************************************************************************)
\* the state the first render read: useState(false)
FirstRender == [qrScannerActive |-> FALSE]

\* if (qrScannerRef.current && qrScannerActive)
StopInvoked(decoder, active) == decoder # "null" /\ active

\* stopQrScanning of a render that read qrScannerActive as active: whether
\* the decoder's stop is invoked, the decoder afterwards (stop throws on a
\* decoder that is not scanning, which is caught), and the flag it sets
stopQrScanning(decoder, active) ==
    [stop |-> StopInvoked(decoder, active),
     qrScanner |-> IF StopInvoked(decoder, active) /\ decoder = "scanning" THEN "idle"
                   ELSE decoder,
     qrScannerActive |-> FALSE]

\* handleQrSuccess stops the scanner once it has found a produce
StoppedAfterQr(decoder, active, produceKey) ==
    IF IsTruthy(produceKey) THEN stopQrScanning(decoder, FirstRender.qrScannerActive)
    ELSE [stop |-> FALSE, qrScanner |-> decoder, qrScannerActive |-> active]

QrScannerErrorToast == [title |-> "QR Scanner Error", variant |-> "destructive"]


\* ---- the QR scanner component of the tracker page ----

\* scannerRef.current is "null", or the decoder it holds, which is
\* "starting", "scanning", "stopping" or "stopped"

\* the values scannerRef.current?.isScanning can have when stopScanning
\* reads it; while the decoder is stopping the decoder decides
IsScanningReads(ref) ==
    CASE ref = "scanning" -> {TRUE}
      [] ref = "stopping" -> BOOLEAN
      [] OTHER -> {FALSE}

\* the answers of scannerRef.current.stop(); a call made while an earlier
\* stop is pending is joined to it or rejected, as the decoder decides
StopAnswers(ref) ==
    IF ref = "stopping" THEN {"pending", "rejected"} ELSE {"pending"}

\* stopScanning up to its await: stop() is called when the decoder reports
\* that it is scanning, and the flag is cleared at once otherwise
stopScanningCalled(ref, reads, answer) ==
    IF reads
    THEN IF answer = "rejected"
         THEN [state |-> "rejected", scannerRef |-> ref, set |-> FALSE]
         ELSE [state |-> "awaits stop", set |-> FALSE,
               scannerRef |-> IF ref = "scanning" THEN "stopping" ELSE ref]
    ELSE [state |-> "stopped", scannerRef |-> ref, set |-> TRUE]

\* handleScanSuccess after stopScanning has returned: onScanSuccess is
\* invoked when the parsed data has a name
ScanDelivery(invocation, done) ==
    [invocation |-> [op |-> invocation.op, decodedText |-> invocation.decodedText,
                     state |-> "done", invoked |-> done.accepted],
     toast |-> [title |-> done.toast,
                variant |-> IF done.accepted THEN "default" ELSE "destructive"]]

ScanDelivered(rules, clock, zone, invocation) ==
    ScanDelivery(invocation, handleScanSuccess(rules, clock, zone, invocation.decodedText))

\* the Stop Scanning button's stopScanning after its await
StopDelivered(invocation) ==
    [op |-> invocation.op, decodedText |-> invocation.decodedText, state |-> "done",
     invoked |-> FALSE]

\* the invocations of onScanSuccess made since startScanning
Delivered(invocations) ==
    {h \in DOMAIN invocations :
        invocations[h].op = "handleScanSuccess" /\ invocations[h].invoked}
(***************************************************************************)
(* State: the two module-level tables, the clock, the call in progress     *)
(* (its arguments, the clock value it read and what it returned) and, for  *)
(* comparing two calls, an earlier call the observer remembers; the        *)
(* browser's notification permission; the produce scanner's selection and  *)
(* whether it sends reminders; the fields of the manual item form.         *)
(***************************************************************************)
VARIABLES produceDatabase, expiryRules, now, pc, call, prev, permission, selectedProduce,
          notificationsEnabled, manualForm,
          foodItems, foodTable, requests, toasts,
          prediction, isSaving, isSaved, saving,
          qrScannerActive, qrScanner, mounted,
          scannerRef, isScanning, isLoading, invocations

\* the item tracker page: its list, the rows of the food_items table, the
\* handler invocations awaiting their answer, and the last toast shown
trackerVars == <<foodItems, foodTable, requests, toasts>>

\* the produce scanner page: the prediction it displays, the two flags of
\* its save button, and the saveToInventory invocation awaiting an answer
savingVars == <<prediction, isSaving, isSaved, saving>>

\* the produce scanner page: whether it shows the QR scanner as active, the
\* decoder qrScannerRef holds, and whether the page is mounted
qrVars == <<qrScannerActive, qrScanner, mounted>>

readerVars == <<scannerRef, isScanning, isLoading, invocations>>

pageVars == <<trackerVars, savingVars, qrVars, readerVars>>

callVars ==
    <<produceDatabase, expiryRules, now, pc, call, prev, permission, selectedProduce,
      notificationsEnabled, manualForm>>

vars == <<callVars, pageVars>>

NoCall == [op |-> "none"]

Packagings == {"none", "plastic", "paper", "sealed", "refrigerated"}
Damages == {"none", "minor", "moderate", "severe"}
Ripenesses == {"unripe", "ripe", "overripe"}

TableKeys == DOMAIN InitialProduceDatabase

\* keys the table does not declare: plain names, a differently cased key,
\* the empty string, and names every JavaScript object inherits
OtherKeys == {"kiwi", "", "Apple", "constructor", "toString", "valueOf", "hasOwnProperty", "__proto__"}

\* every optimum of the table, 2 (which is 2, 5 and 11 degrees from an
\* optimum, next to the 3, 6 and 10 the optima are from each other), and an
\* extreme temperature
ExtremeTemperature == 1000
Temperatures == {0, 1, 2, 4, 7, 10, 13, ExtremeTemperature}

\* every optimum of the table, 75, and two values outside 0..100
Humidities == {-5, 65, 75, 85, 90, 95, 98, 101}

StorageConditions ==
    [temperature : Temperatures, humidity : Humidities, packaging : Packagings,
     damage : Damages, ripeness : Ripenesses]

\* the conditions tried with a key the table does not declare
OtherKeyConditions ==
    [temperature : {13, ExtremeTemperature}, humidity : {90, 101}, packaging : {"paper", "sealed"},
     damage : {"none"}, ripeness : {"ripe", "overripe"}]

\* the calls of the two-call comparison
RepeatedKeys == {"banana", "strawberry", "onion"}
RepeatedConditions ==
    [temperature : {13, ExtremeTemperature}, humidity : {90}, packaging : {"sealed"},
     damage : {"none"}, ripeness : {"ripe", "overripe"}]

Space == <<" ">>

RECURSIVE JoinWords(_)
JoinWords(ws) ==
    IF Len(ws) = 0 THEN << >>
    ELSE IF Len(ws) = 1 THEN ws[1]
    ELSE ws[1] \o Space \o JoinWords(Tail(ws))

MaxWords == 2

\* "Fresh Aloo 1kg" and "Xyzzy unknown item"
ExampleTexts ==
    {JoinWords(<<<<"F", "r", "e", "s", "h">>, <<"A", "l", "o", "o">>, <<"1", "k", "g">>>>),
     JoinWords(<<<<"X", "y", "z", "z", "y">>, <<"u", "n", "k", "n", "o", "w", "n">>,
                 <<"i", "t", "e", "m">>>>)}

Texts ==
    ExampleTexts
    \cup UNION {{JoinWords(ws) : ws \in [1..n -> Vocabulary]} : n \in 1..MaxWords}

\* month and year ends, a leap day, and the spec's example date
PurchaseDates ==
    {NewDate(2025, 0, 1, 0), NewDate(2024, 1, 28, 0), NewDate(2025, 1, 27, 0),
     NewDate(2024, 11, 30, 1), NewDate(2025, 11, 5, 0)}

StartDay == MakeDay(2024, 11, 30)
MaxClockSteps == 3

ClockSteps(clock) == (clock.day - StartDay) * TicksPerDay + clock.tod

\* the ids of the rows the user owns when the page opens, none consumed
RowIds == <<"a", "b">>

InitialRows == {[id |-> RowIds[n], is_consumed |-> FALSE] : n \in 1..Len(RowIds)}

\* the handler invocations that can await their answer at the same time
Handlers == {"first", "second"}

NoToast == [title |-> "", variant |-> "default"]

Init ==
    /\ produceDatabase = InitialProduceDatabase
    /\ expiryRules = InitialExpiryRules
    /\ now = [valid |-> TRUE, day |-> StartDay, tod |-> 0]
    /\ pc = "ready"
    /\ call = NoCall
    /\ prev = NoCall
    /\ permission = "default"
    /\ selectedProduce = ""
    /\ notificationsEnabled = FALSE
    /\ manualForm = EmptyForm
    /\ foodItems = << >>
    /\ foodTable = InitialRows
    /\ requests = [h \in Handlers |-> Idle]
    /\ toasts = NoToast
    /\ prediction = null
    /\ isSaving = FALSE
    /\ isSaved = FALSE
    /\ saving = Idle
    /\ qrScannerActive = FALSE
    /\ qrScanner = "null"
    /\ mounted = TRUE
    /\ scannerRef = "null"
    /\ isScanning = FALSE
    /\ isLoading = FALSE
    /\ invocations = [h \in Handlers |-> Idle]

PredictCall(produceKey, conditions) ==
    /\ call' = [op |-> "predictRotDate", produceKey |-> produceKey,
                conditions |-> conditions, at |-> now, later |-> FALSE,
                result |-> predictRotDate(produceDatabase, now, produceKey, conditions)]
    /\ pc' = "returned"
    /\ UNCHANGED <<pageVars, manualForm, permission, notificationsEnabled, selectedProduce,
                   produceDatabase, expiryRules, now, prev>>

\* a caller invokes predictRotDate and receives its result or its exception
PredictRotDate ==
    /\ pc = "ready"
    /\ \E produceKey \in TableKeys, conditions \in StorageConditions :
          PredictCall(produceKey, conditions)

PredictOtherKey ==
    /\ pc = "ready"
    /\ \E produceKey \in OtherKeys, conditions \in OtherKeyConditions :
          PredictCall(produceKey, conditions)

PredictRepeated ==
    /\ pc = "ready"
    /\ \E produceKey \in RepeatedKeys, conditions \in RepeatedConditions :
          PredictCall(produceKey, conditions)

FindExpiryRule ==
    /\ pc = "ready"
    /\ \E itemName \in Texts :
          call' = [op |-> "findExpiryRule", itemName |-> itemName,
                   result |-> findExpiryRule(expiryRules, itemName)]
    /\ pc' = "returned"
    /\ UNCHANGED <<pageVars, manualForm, permission, notificationsEnabled, selectedProduce,
                   produceDatabase, expiryRules, now, prev>>

CalculateExpiryDate ==
    /\ pc = "ready"
    /\ \E itemName \in Texts, purchaseDate \in PurchaseDates \cup {undefined} :
          call' = [op |-> "calculateExpiryDate", itemName |-> itemName,
                   purchaseDate |-> purchaseDate, at |-> now,
                   purchaseDateAfter |->
                       PurchaseDateAfterCall(purchaseDate,
                                             DaysToAdd(findExpiryRule(expiryRules, itemName))),
                   result |-> calculateExpiryDate(expiryRules, now, itemName, purchaseDate)]
    /\ pc' = "returned"
    /\ UNCHANGED <<pageVars, manualForm, permission, notificationsEnabled, selectedProduce,
                   produceDatabase, expiryRules, now, prev>>

\* the caller is done with the result; the observer notes that a call was
\* made after the one it remembers
Continue ==
    /\ pc = "returned"
    /\ pc' = "ready"
    /\ call' = NoCall
    /\ prev' = IF prev = NoCall THEN prev ELSE [prev EXCEPT !.later = TRUE]
    /\ UNCHANGED <<pageVars, manualForm, permission, notificationsEnabled, selectedProduce,
                   produceDatabase, expiryRules, now>>

\* the observer keeps the call just made, to compare a later one with it
Remember ==
    /\ pc = "returned"
    /\ pc' = "ready"
    /\ prev' = [call EXCEPT !.later = FALSE]
    /\ call' = NoCall
    /\ UNCHANGED <<pageVars, manualForm, permission, notificationsEnabled, selectedProduce,
                   produceDatabase, expiryRules, now>>

\* time passes between calls
Tick ==
    /\ pc = "ready"
    /\ ClockSteps(now) < MaxClockSteps
    /\ now' = IF now.tod + 1 < TicksPerDay
              THEN [now EXCEPT !.tod = now.tod + 1]
              ELSE [now EXCEPT !.day = now.day + 1, !.tod = 0]
    /\ UNCHANGED <<pageVars, manualForm, permission, notificationsEnabled, selectedProduce,
                   produceDatabase, expiryRules, pc, call, prev>>

\* the rot predictor, one call at a time
Next == PredictRotDate \/ PredictOtherKey \/ Continue

Spec == Init /\ [][Next]_vars

\* the expiry-rule resolver, one call at a time
NextRules == FindExpiryRule \/ CalculateExpiryDate \/ Continue

SpecRules == Init /\ [][NextRules]_vars

\* a caller looks up an item named by a keyword of the table itself, in
\* lower or in upper case
FindRuleOfKeyword ==
    /\ pc = "ready"
    /\ \E r \in 1..Len(expiryRules), upper \in BOOLEAN :
          \E k \in 1..Len(expiryRules[r].keywords) :
             LET itemName == IF upper THEN toUpperCase(expiryRules[r].keywords[k])
                             ELSE expiryRules[r].keywords[k]
             IN call' = [op |-> "findExpiryRule", itemName |-> itemName,
                         result |-> findExpiryRule(expiryRules, itemName)]
    /\ pc' = "returned"
    /\ UNCHANGED <<pageVars, manualForm, permission, notificationsEnabled, selectedProduce,
                   produceDatabase, expiryRules, now, prev>>

NextKeywords == FindRuleOfKeyword \/ FindExpiryRule \/ Continue

SpecKeywords == Init /\ [][NextKeywords]_vars

\* calls of predictRotDate over time, an earlier one remembered
NextRepeated == PredictRepeated \/ Continue \/ Remember \/ Tick

SpecRepeated == Init /\ [][NextRepeated]_vars

\* calls of the three functions in any order, over time
NextCalls ==
    FindExpiryRule \/ CalculateExpiryDate \/ PredictRepeated \/ PredictOtherKey \/ Continue \/ Tick

SpecCalls == Init /\ [][NextCalls]_vars

\* the zone of the browser: local time is UTC, or half a day behind or ahead
Zones == {-1, 0, 1}

\* rows of the food_items table as the page holds them
StoredItems ==
    {[name |-> <<"M", "i", "l", "k">>, expiry_date |-> <<"2", "0", "2", "4", "-", "1", "2", "-", "3", "0">>],
     [name |-> <<"A", "l", "o", "o">>, expiry_date |-> <<"2", "0", "2", "5", "-", "0", "1", "-", "0", "2">>],
     [name |-> <<"G", "h", "e", "e">>, expiry_date |-> <<"2", "0", "2", "4", "-", "1", "2", "-", "2", "5">>],
     [name |-> <<"F", "I", "S", "H">>, expiry_date |-> <<"s", "o", "o", "n">>]}

MaxItems == 2

ItemLists == UNION {[1..n -> StoredItems] : n \in 0..MaxItems}

NotificationTexts ==
    {[title |-> "Food Items Expiring Soon!", body |-> "Milk"],
     [title |-> "Produce Alert!", body |-> "Banana will spoil in 3 days. Use it soon!"]}

RequestNotificationPermission ==
    /\ pc = "ready"
    /\ \E answer \in Permissions :
          /\ permission' = requestNotificationPermission(permission, answer).permission
          /\ call' = [op |-> "requestNotificationPermission", permission |-> permission,
                      result |-> requestNotificationPermission(permission, answer).result]
    /\ pc' = "returned"
    /\ UNCHANGED <<pageVars, manualForm, notificationsEnabled, selectedProduce, produceDatabase,
                   expiryRules, now, prev>>

\* the user changes the site's notification setting in the browser
SettingsChanged ==
    /\ pc = "ready"
    /\ \E setting \in Permissions \ {permission} : permission' = setting
    /\ UNCHANGED <<pageVars, manualForm, notificationsEnabled, selectedProduce, produceDatabase,
                   expiryRules, now, pc, call, prev>>

ShowNotification ==
    /\ pc = "ready"
    /\ \E text \in NotificationTexts :
          call' = [op |-> "showNotification", permission |-> permission,
                   title |-> text.title, body |-> text.body,
                   created |-> showNotification(permission, text.title, text.body)]
    /\ pc' = "returned"
    /\ UNCHANGED <<pageVars, manualForm, permission, notificationsEnabled, selectedProduce,
                   produceDatabase, expiryRules, now, prev>>

CheckExpiringItems ==
    /\ pc = "ready"
    /\ \E items \in ItemLists, zone \in Zones :
          call' = [op |-> "checkExpiringItems", permission |-> permission, items |-> items,
                   zone |-> zone, at |-> now,
                   created |-> checkExpiringItems(permission, now, zone, items)]
    /\ pc' = "returned"
    /\ UNCHANGED <<pageVars, manualForm, permission, notificationsEnabled, selectedProduce,
                   produceDatabase, expiryRules, now, prev>>

\* notifications, the permission changing between calls
NextNotify ==
    \/ RequestNotificationPermission
    \/ SettingsChanged
    \/ ShowNotification
    \/ CheckExpiringItems
    \/ Continue
    \/ Tick

SpecNotify == Init /\ [][NextNotify]_vars

\* decoded QR texts: keys and names of the table in several spellings, with
\* white space around them, a produce the table lacks, names every
\* JavaScript object inherits, and the empty text
QrTexts ==
    {<<"b", "a", "n", "a", "n", "a">>, <<" ", "B", "a", "n", "a", "n", "a", "\n">>,
     <<"A", "P", "P", "L", "E">>, <<"k", "i", "w", "i">>,
     <<"c", "o", "n", "s", "t", "r", "u", "c", "t", "o", "r">>,
     <<"t", "o", "S", "t", "r", "i", "n", "g">>,
     <<"_", "_", "p", "r", "o", "t", "o", "_", "_">>, << >>}

\* the page's initial conditions, and others set with its controls
ScannerConditions ==
    {[temperature |-> 20, humidity |-> 60, packaging |-> "none", damage |-> "none", ripeness |-> "ripe"],
     [temperature |-> 13, humidity |-> 90, packaging |-> "sealed", damage |-> "none", ripeness |-> "overripe"],
     [temperature |-> 0, humidity |-> 95, packaging |-> "refrigerated", damage |-> "none", ripeness |-> "unripe"]}

\* the user picks an entry of the produce list, which offers the table's keys
SelectProduce ==
    /\ pc = "ready"
    /\ \E key \in DOMAIN produceDatabase : selectedProduce' = key
    /\ UNCHANGED <<pageVars, manualForm, permission, notificationsEnabled, produceDatabase, expiryRules,
                   now, pc, call, prev>>

ResetCapture ==
    /\ pc = "ready"
    /\ prediction' = null
    /\ selectedProduce' = ""
    /\ isSaved' = FALSE
    /\ UNCHANGED <<readerVars, trackerVars, qrVars, isSaving, saving, manualForm, permission, notificationsEnabled, produceDatabase, expiryRules,
                   now, pc, call, prev>>

\* the user opens the QR tab or presses Start QR Scanner: the decoder is
\* created if there is none and asked to start, which it refuses while it is
\* starting or scanning
StartQrScanning ==
    /\ pc = "ready"
    /\ mounted
    /\ IF qrScanner \in {"starting", "scanning"}
       THEN /\ call' = [op |-> "startQrScanning", later |-> FALSE, toast |-> QrScannerErrorToast]
            /\ pc' = "returned"
            /\ UNCHANGED qrScanner
       ELSE /\ qrScanner' = "starting"
            /\ UNCHANGED <<pc, call>>
    /\ UNCHANGED <<readerVars, trackerVars, savingVars, qrScannerActive, mounted, manualForm, permission,
                   notificationsEnabled, selectedProduce, produceDatabase, expiryRules, now, prev>>

\* the camera opens and startQrScanning continues, or the camera is refused
QrScannerStarted ==
    /\ pc = "ready"
    /\ mounted
    /\ qrScanner = "starting"
    /\ \/ /\ qrScanner' = "scanning"
          /\ qrScannerActive' = TRUE
          /\ UNCHANGED <<pc, call>>
       \/ /\ qrScanner' = "idle"
          /\ call' = [op |-> "startQrScanning", later |-> FALSE, toast |-> QrScannerErrorToast]
          /\ pc' = "returned"
          /\ UNCHANGED qrScannerActive
    /\ UNCHANGED <<readerVars, trackerVars, savingVars, mounted, manualForm, permission,
                   notificationsEnabled, selectedProduce, produceDatabase, expiryRules, now, prev>>

\* the user presses Stop Scanner or leaves the QR tab: the stopQrScanning of
\* the current render
StopQrScanning ==
    /\ pc = "ready"
    /\ mounted
    /\ qrScanner' = stopQrScanning(qrScanner, qrScannerActive).qrScanner
    /\ qrScannerActive' = stopQrScanning(qrScanner, qrScannerActive).qrScannerActive
    /\ UNCHANGED <<callVars, readerVars, trackerVars, savingVars, mounted>>

\* the page is left: the cleanup of the mount effect
Unmount ==
    /\ pc = "ready"
    /\ mounted
    /\ mounted' = FALSE
    /\ qrScanner' = stopQrScanning(qrScanner, FirstRender.qrScannerActive).qrScanner
    /\ qrScannerActive' = stopQrScanning(qrScanner, FirstRender.qrScannerActive).qrScannerActive
    /\ UNCHANGED <<callVars, readerVars, trackerVars, savingVars>>

\* the scanning decoder reads a QR code and calls handleQrSuccess
HandleQrSuccess ==
    /\ pc = "ready"
    /\ mounted
    /\ qrScanner = "scanning"
    /\ \E decodedText \in QrTexts :
          LET normalizedText == NormalizedText(decodedText)
              produceKey == ProduceKeyOf(produceDatabase, normalizedText)
              stopped == StoppedAfterQr(qrScanner, qrScannerActive, produceKey)
          IN  /\ selectedProduce' = SelectedAfterQr(selectedProduce, produceKey, normalizedText)
              /\ qrScanner' = stopped.qrScanner
              /\ qrScannerActive' = stopped.qrScannerActive
              /\ call' = [op |-> "handleQrSuccess", decodedText |-> decodedText, later |-> FALSE,
                          produceKey |-> produceKey, stop |-> stopped.stop,
                          toast |-> QrToast(produceDatabase, produceKey, decodedText)]
    /\ pc' = "returned"
    /\ UNCHANGED <<readerVars, trackerVars, savingVars, mounted, manualForm, permission, notificationsEnabled, produceDatabase, expiryRules,
                   now, prev>>

CheckNotificationPermission ==
    /\ pc = "ready"
    /\ notificationsEnabled' = checkNotificationPermission(permission, notificationsEnabled)
    /\ UNCHANGED <<pageVars, manualForm, permission, selectedProduce, produceDatabase, expiryRules, now,
                   pc, call, prev>>

EnableNotifications ==
    /\ pc = "ready"
    /\ \E answer \in Permissions :
          /\ permission' = requestNotificationPermission(permission, answer).permission
          /\ notificationsEnabled' = requestNotificationPermission(permission, answer).result
    /\ UNCHANGED <<pageVars, manualForm, selectedProduce, produceDatabase, expiryRules, now, pc, call, prev>>

CalculatePrediction ==
    /\ pc = "ready"
    /\ \E conditions \in ScannerConditions :
          call' = [op |-> "calculatePrediction", selectedProduce |-> selectedProduce,
                   conditions |-> conditions, at |-> now, permission |-> permission,
                   notificationsEnabled |-> notificationsEnabled, later |-> FALSE]
                  @@ calculatePrediction(produceDatabase, now, permission, notificationsEnabled,
                                         selectedProduce, conditions)
    /\ prediction' = IF call'.invoked /\ ~call'.result.threw THEN call'.result ELSE prediction
    /\ pc' = "returned"
    /\ UNCHANGED <<readerVars, trackerVars, qrVars, isSaving, isSaved, saving, manualForm, permission, notificationsEnabled, selectedProduce,
                   produceDatabase, expiryRules, now, prev>>

\* the produce scanner page in use
NextScanner ==
    \/ SelectProduce
    \/ ResetCapture
    \/ StartQrScanning
    \/ QrScannerStarted
    \/ HandleQrSuccess
    \/ CalculatePrediction
    \/ Continue

SpecScanner == Init /\ [][NextScanner]_vars

\* decoded QR texts: the three documented forms, with quantities of every
\* sign, expiry texts that hold a date and that hold none, white space,
\* texts without a name, and plain texts that JSON.parse reads too:
\*   {"name":"Milk","category":"Dairy","expiry":"2025-12-31"}
\*   {"name":"Milk","qty":3}
\*   {"name":"Milk","qty":-3}
\*   {"name":"Milk","qty":0}
\*   { "name" : "Ghee", "brand" : "Amul", "mfg" : "2024-12-01" }
\*   {"name":"Milk","expiry":"soon"}
\*   {"category":"Dairy"}
\*   {"name":123}
\*   {"name":"Milk"
\*   name=Milk|category=Dairy|expiry=2025-12-31|mfg=2025-01-01|qty=1
\*   name=Milk|qty=-5
\*   name=Milk|qty=0
\*   name=Milk|qty=abc
\*   Name = Fresh Aloo | QTY = 12kg
\*   name=Aloo|expiry=
\*   name=Milk|expiry=soon
\*   qty=2
\*   a=b
\*   Milk
\*     Fresh Aloo 1kg \n
\*   Xyzzy
\*   (0 spaces)
\*   (3 spaces)
\*   123
\*   null
\*   true
\*   "Milk"
ScannedTexts ==
    {<<"{", "\"", "n", "a", "m", "e", "\"", ":", "\"", "M", "i", "l", "k", "\"", ",", "\"",
       "c", "a", "t", "e", "g", "o", "r", "y", "\"", ":", "\"", "D", "a", "i", "r", "y", "\"",
       ",", "\"", "e", "x", "p", "i", "r", "y", "\"", ":", "\"", "2", "0", "2", "5", "-", "1",
       "2", "-", "3", "1", "\"", "}">>,
     <<"{", "\"", "n", "a", "m", "e", "\"", ":", "\"", "M", "i", "l", "k", "\"", ",", "\"",
       "q", "t", "y", "\"", ":", "3", "}">>,
     <<"{", "\"", "n", "a", "m", "e", "\"", ":", "\"", "M", "i", "l", "k", "\"", ",", "\"",
       "q", "t", "y", "\"", ":", "-", "3", "}">>,
     <<"{", "\"", "n", "a", "m", "e", "\"", ":", "\"", "M", "i", "l", "k", "\"", ",", "\"",
       "q", "t", "y", "\"", ":", "0", "}">>,
     <<"{", " ", "\"", "n", "a", "m", "e", "\"", " ", ":", " ", "\"", "G", "h", "e", "e", "\"",
       ",", " ", "\"", "b", "r", "a", "n", "d", "\"", " ", ":", " ", "\"", "A", "m", "u", "l",
       "\"", ",", " ", "\"", "m", "f", "g", "\"", " ", ":", " ", "\"", "2", "0", "2", "4", "-",
       "1", "2", "-", "0", "1", "\"", " ", "}">>,
     <<"{", "\"", "n", "a", "m", "e", "\"", ":", "\"", "M", "i", "l", "k", "\"", ",", "\"",
       "e", "x", "p", "i", "r", "y", "\"", ":", "\"", "s", "o", "o", "n", "\"", "}">>,
     <<"{", "\"", "c", "a", "t", "e", "g", "o", "r", "y", "\"", ":", "\"", "D", "a", "i", "r",
       "y", "\"", "}">>,
     <<"{", "\"", "n", "a", "m", "e", "\"", ":", "1", "2", "3", "}">>,
     <<"{", "\"", "n", "a", "m", "e", "\"", ":", "\"", "M", "i", "l", "k", "\"">>,
     <<"n", "a", "m", "e", "=", "M", "i", "l", "k", "|", "c", "a", "t", "e", "g", "o", "r",
       "y", "=", "D", "a", "i", "r", "y", "|", "e", "x", "p", "i", "r", "y", "=", "2", "0",
       "2", "5", "-", "1", "2", "-", "3", "1", "|", "m", "f", "g", "=", "2", "0", "2", "5",
       "-", "0", "1", "-", "0", "1", "|", "q", "t", "y", "=", "1">>,
     <<"n", "a", "m", "e", "=", "M", "i", "l", "k", "|", "q", "t", "y", "=", "-", "5">>,
     <<"n", "a", "m", "e", "=", "M", "i", "l", "k", "|", "q", "t", "y", "=", "0">>,
     <<"n", "a", "m", "e", "=", "M", "i", "l", "k", "|", "q", "t", "y", "=", "a", "b", "c">>,
     <<"N", "a", "m", "e", " ", "=", " ", "F", "r", "e", "s", "h", " ", "A", "l", "o", "o",
       " ", "|", " ", "Q", "T", "Y", " ", "=", " ", "1", "2", "k", "g">>,
     <<"n", "a", "m", "e", "=", "A", "l", "o", "o", "|", "e", "x", "p", "i", "r", "y", "=">>,
     <<"n", "a", "m", "e", "=", "M", "i", "l", "k", "|", "e", "x", "p", "i", "r", "y", "=",
       "s", "o", "o", "n">>,
     <<"q", "t", "y", "=", "2">>,
     <<"a", "=", "b">>,
     <<"M", "i", "l", "k">>,
     <<" ", " ", "F", "r", "e", "s", "h", " ", "A", "l", "o", "o", " ", "1", "k", "g", " ",
       "\n">>,
     <<"X", "y", "z", "z", "y">>,
     << >>,
     <<" ", " ", " ">>,
     <<"1", "2", "3">>,
     <<"n", "u", "l", "l">>,
     <<"t", "r", "u", "e">>,
     <<"\"", "M", "i", "l", "k", "\"">>}

\* lines of a recognised receipt
ReceiptLines ==
    {<<"M", "i", "l", "k", " ", "2", "L", " ", " ", "5", "4", ".", "0", "0">>, <<" ", " ", "F", "r", "e", "s", "h", " ", "A", "l", "o", "o", " ", "1", "k", "g">>,
     <<"T", "O", "T", "A", "L", " ", "1", "2", "0", ".", "0", "0">>, <<" ", " ", " ">>}

\* what the user enters in the manual form
FormNames == {<<" ", "M", "i", "l", "k", " ">>, <<" ", " ">>}
FormCategories == {<< >>, <<"D", "a", "i", "r", "y">>}
FormQuantities == {<< >>, <<"3">>, <<"-", "5">>, <<"0">>}
FormExpiryDates == {<< >>, <<"2", "0", "2", "5", "-", "0", "1", "-", "0", "2">>, <<"2", "0", "2", "4", "-", "1", "2", "-", "2", "5">>}

LineLists == UNION {[1..n -> ReceiptLines] : n \in 0..MaxItems}

TypeName ==
    /\ pc = "ready"
    /\ \E value \in FormNames \ {manualForm.name} : manualForm' = [manualForm EXCEPT !.name = value]
    /\ UNCHANGED <<pageVars, permission, notificationsEnabled, selectedProduce, produceDatabase,
                   expiryRules, now, pc, call, prev>>

SelectCategory ==
    /\ pc = "ready"
    /\ \E value \in FormCategories \ {manualForm.category} :
          manualForm' = [manualForm EXCEPT !.category = value]
    /\ UNCHANGED <<pageVars, permission, notificationsEnabled, selectedProduce, produceDatabase,
                   expiryRules, now, pc, call, prev>>

TypeQuantity ==
    /\ pc = "ready"
    /\ \E value \in FormQuantities : manualForm' = [manualForm EXCEPT !.quantity = QuantityTyped(value)]
    /\ UNCHANGED <<pageVars, permission, notificationsEnabled, selectedProduce, produceDatabase,
                   expiryRules, now, pc, call, prev>>

PickExpiryDate ==
    /\ pc = "ready"
    /\ \E value \in FormExpiryDates \ {manualForm.expiryDate} :
          manualForm' = [manualForm EXCEPT !.expiryDate = value, !.useAutoExpiry = Len(value) = 0]
    /\ UNCHANGED <<pageVars, permission, notificationsEnabled, selectedProduce, produceDatabase,
                   expiryRules, now, pc, call, prev>>

\* the user submits the manual form; the form is reset when an item was handed on
SubmitForm ==
    /\ pc = "ready"
    /\ \E zone \in Zones :
          /\ FormIsValid(manualForm, now, zone)
          /\ call' = [op |-> "handleSubmit", form |-> manualForm, zone |-> zone, at |-> now]
                     @@ handleSubmit(manualForm, expiryRules, now, zone)
          /\ manualForm' = IF handleSubmit(manualForm, expiryRules, now, zone).submitted
                           THEN EmptyForm ELSE manualForm
    /\ pc' = "returned"
    /\ UNCHANGED <<pageVars, permission, notificationsEnabled, selectedProduce, produceDatabase,
                   expiryRules, now, prev>>

\* a receipt image has been recognised
ProcessImage ==
    /\ pc = "ready"
    /\ \E lines \in LineLists, zone \in Zones :
          call' = [op |-> "processImage", lines |-> lines, zone |-> zone, at |-> now]
                  @@ processImage(expiryRules, now, zone, lines)
    /\ pc' = "returned"
    /\ UNCHANGED <<pageVars, manualForm, permission, notificationsEnabled, selectedProduce,
                   produceDatabase, expiryRules, now, prev>>

\* the QR scanner has decoded a text
HandleScanSuccess ==
    /\ pc = "ready"
    /\ \E decodedText \in ScannedTexts, zone \in Zones :
          call' = [op |-> "handleScanSuccess", decodedText |-> decodedText, zone |-> zone, at |-> now]
                  @@ handleScanSuccess(expiryRules, now, zone, decodedText)
    /\ pc' = "returned"
    /\ UNCHANGED <<pageVars, manualForm, permission, notificationsEnabled, selectedProduce,
                   produceDatabase, expiryRules, now, prev>>

\* food items added by hand, from a receipt and from a QR code, over time
NextItems ==
    \/ TypeName
    \/ SelectCategory
    \/ TypeQuantity
    \/ PickExpiryDate
    \/ SubmitForm
    \/ ProcessImage
    \/ HandleScanSuccess
    \/ Continue
    \/ Tick

SpecItems == Init /\ [][NextItems]_vars

\* rows of the food_items table, whose expiry_date column is date NOT
\* NULL: items expired, expiring on the day the clock starts, three and four
\* days later, and later still, consumed or not
BannerDates ==
    {<<"2", "0", "2", "4", "-", "1", "2", "-", "2", "9">>,
     <<"2", "0", "2", "4", "-", "1", "2", "-", "3", "0">>,
     <<"2", "0", "2", "5", "-", "0", "1", "-", "0", "2">>,
     <<"2", "0", "2", "5", "-", "0", "1", "-", "0", "3">>,
     <<"2", "0", "2", "5", "-", "0", "1", "-", "1", "0">>}

BannerItems ==
    {[name |-> <<"M", "i", "l", "k">>, expiry_date |-> d, is_consumed |-> c] :
        d \in BannerDates, c \in BOOLEAN}

BannerLists == UNION {[1..n -> BannerItems] : n \in 0..MaxItems}

\* the page renders the banner with the items it holds
RenderWelcomeBanner ==
    /\ pc = "ready"
    /\ \E items \in BannerLists, zone \in Zones :
          call' = [op |-> "WelcomeBanner", items |-> items, zone |-> zone, at |-> now,
                   stats |-> WelcomeBannerStats(now, zone, items)]
    /\ pc' = "returned"
    /\ UNCHANGED <<pageVars, manualForm, permission, notificationsEnabled, selectedProduce,
                   produceDatabase, expiryRules, now, prev>>

NextBanner == RenderWelcomeBanner \/ Continue \/ Tick

SpecBanner == Init /\ [][NextBanner]_vars

\* fetchFoodItems: the page holds the rows of the table
FetchFoodItems ==
    /\ foodItems' = RowsInOrder(foodTable, RowIds)
    /\ UNCHANGED <<callVars, readerVars, savingVars, qrVars, foodTable, requests, toasts>>

\* the user presses the delete button of a card: handleDelete sends its
\* request and awaits the answer
HandleDelete ==
    /\ \E h \in Handlers, n \in 1..Len(foodItems) :
          /\ requests[h] = Idle
          /\ requests' = [requests EXCEPT ![h] =
                [op |-> "delete", id |-> foodItems[n].id, foodItems |-> foodItems,
                 answer |-> "awaited"]]
    /\ UNCHANGED <<callVars, readerVars, savingVars, qrVars, foodItems, foodTable, toasts>>

\* the user presses the consumed button of a card: handleToggleConsumed
\* sends its request and awaits the answer
HandleToggleConsumed ==
    /\ \E h \in Handlers, n \in 1..Len(foodItems) :
          /\ requests[h] = Idle
          /\ requests' = [requests EXCEPT ![h] =
                [op |-> "update", id |-> foodItems[n].id,
                 isConsumed |-> ~foodItems[n].is_consumed, foodItems |-> foodItems,
                 answer |-> "awaited"]]
    /\ UNCHANGED <<callVars, readerVars, savingVars, qrVars, foodItems, foodTable, toasts>>

\* the backend carries a request out and reports success
BackendSucceeds ==
    /\ \E h \in Handlers :
          /\ requests[h] # Idle
          /\ requests[h].answer = "awaited"
          /\ foodTable' = IF requests[h].op = "delete"
                          THEN RowsAfterDelete(foodTable, requests[h].id)
                          ELSE RowsAfterUpdate(foodTable, requests[h].id, requests[h].isConsumed)
          /\ requests' = [requests EXCEPT ![h].answer = "success"]
    /\ UNCHANGED <<callVars, readerVars, savingVars, qrVars, foodItems, toasts>>

\* the backend or the network rejects a request
BackendFails ==
    /\ \E h \in Handlers :
          /\ requests[h] # Idle
          /\ requests[h].answer = "awaited"
          /\ requests' = [requests EXCEPT ![h].answer = "error"]
    /\ UNCHANGED <<callVars, readerVars, savingVars, qrVars, foodItems, foodTable, toasts>>

\* a handler continues after its await
HandlerContinues(h) ==
    /\ requests[h] # Idle
    /\ requests[h].answer # "awaited"
    /\ LET done == IF requests[h].op = "delete" THEN handleDeleteAnswered(requests[h])
                   ELSE handleToggleConsumedAnswered(requests[h])
       IN  /\ foodItems' = IF done.set THEN done.foodItems ELSE foodItems
           /\ toasts' = done.toast
    /\ requests' = [requests EXCEPT ![h] = Idle]
    /\ UNCHANGED <<callVars, readerVars, savingVars, qrVars, foodTable>>

HandleDeleteContinues ==
    \E h \in Handlers : requests[h] # Idle /\ requests[h].op = "delete" /\ HandlerContinues(h)

HandleToggleConsumedContinues ==
    \E h \in Handlers : requests[h] # Idle /\ requests[h].op = "update" /\ HandlerContinues(h)

NextTracker ==
    \/ FetchFoodItems
    \/ HandleDelete
    \/ HandleToggleConsumed
    \/ BackendSucceeds
    \/ BackendFails
    \/ HandleDeleteContinues
    \/ HandleToggleConsumedContinues

SpecTracker == Init /\ [][NextTracker]_vars

\* the entries of the produce list the user picks before saving
SavedKeys == {"banana", "apple"}

SelectProduceToSave ==
    /\ pc = "ready"
    /\ \E key \in SavedKeys : selectedProduce' = key
    /\ UNCHANGED <<pageVars, manualForm, permission, notificationsEnabled, produceDatabase, expiryRules,
                   now, pc, call, prev>>

\* the user presses Save to Inventory, which is shown with a prediction that
\* is not marked saved and is enabled while no save is in progress
SaveToInventory ==
    /\ pc = "ready"
    /\ prediction # null /\ ~isSaved /\ ~isSaving
    /\ IF NothingToSave(prediction, selectedProduce)
       THEN UNCHANGED <<isSaving, saving>>
       ELSE /\ isSaving' = TRUE
            /\ saving' = AwaitingUser(prediction, selectedProduce, notificationsEnabled)
    /\ UNCHANGED <<callVars, readerVars, trackerVars, qrVars, prediction, isSaved>>

\* supabase.auth.getUser() is answered and saveToInventory continues
SaveToInventoryWithUser ==
    /\ pc = "ready"
    /\ saving # Idle /\ saving.awaits = "getUser"
    /\ \E user \in BOOLEAN, zone \in Zones :
          /\ call' = [op |-> "saveToInventory", zone |-> zone, at |-> now, later |-> FALSE,
                      saving |-> saving]
                     @@ saveToInventoryWithUser(produceDatabase, now, zone, saving, user)
          /\ isSaving' = call'.isSaving
          /\ saving' = IF call'.outcome = "insert sent"
                       THEN [saving EXCEPT !.awaits = "insert"] ELSE Idle
    /\ pc' = "returned"
    /\ UNCHANGED <<readerVars, trackerVars, qrVars, prediction, isSaved, manualForm, permission, notificationsEnabled,
                   selectedProduce, produceDatabase, expiryRules, now, prev>>

\* the insert is answered and saveToInventory continues
SaveToInventoryInserted ==
    /\ pc = "ready"
    /\ saving # Idle /\ saving.awaits = "insert"
    /\ \E error \in BOOLEAN :
          /\ call' = [op |-> "saveToInventory", at |-> now, later |-> FALSE, saving |-> saving]
                     @@ saveToInventoryInserted(produceDatabase, permission, saving, isSaved, error)
          /\ isSaving' = call'.isSaving
          /\ isSaved' = call'.isSaved
    /\ saving' = Idle
    /\ pc' = "returned"
    /\ UNCHANGED <<readerVars, trackerVars, qrVars, prediction, manualForm, permission, notificationsEnabled,
                   selectedProduce, produceDatabase, expiryRules, now, prev>>

\* predicting and saving on the produce scanner page
NextSaving ==
    \/ SelectProduceToSave
    \/ CalculatePrediction
    \/ ResetCapture
    \/ CheckNotificationPermission
    \/ EnableNotifications
    \/ SaveToInventory
    \/ SaveToInventoryWithUser
    \/ SaveToInventoryInserted
    \/ Continue

SpecSaving == Init /\ [][NextSaving]_vars

\* the event loop runs the continuation of every settled promise, whatever
\* other events it handles in between, and the backend answers every request
SpecSavingFair ==
    /\ SpecSaving
    /\ WF_vars(Continue)
    /\ SF_vars(SaveToInventoryWithUser)
    /\ SF_vars(SaveToInventoryInserted)

\* the QR tab of the produce scanner page, until the page is left
NextQr ==
    \/ SelectProduce
    \/ StartQrScanning
    \/ QrScannerStarted
    \/ HandleQrSuccess
    \/ StopQrScanning
    \/ Unmount
    \/ Continue

SpecQr == Init /\ [][NextQr]_vars

\* the texts of the QR codes shown to the component
ReaderTexts == {<<"M", "i", "l", "k">>, << >>}

Awaiting(h) == invocations[h] # Idle /\ invocations[h].state = "awaits stop"

\* Start Scanning, pressed once the earlier session has settled
StartScanning ==
    /\ ~isScanning /\ ~isLoading
    /\ \A h \in Handlers : ~Awaiting(h)
    /\ isLoading' = TRUE
    /\ scannerRef' = "starting"
    /\ invocations' = [h \in Handlers |-> Idle]
    /\ UNCHANGED <<callVars, trackerVars, savingVars, qrVars, isScanning>>

\* html5QrCode.start settles: the camera runs, or the error is reported
ScannerStarted ==
    /\ isLoading /\ scannerRef = "starting"
    /\ \E started \in BOOLEAN :
          IF started
          THEN /\ scannerRef' = "scanning"
               /\ isScanning' = TRUE
               /\ UNCHANGED toasts
          ELSE /\ scannerRef' = "stopped"
               /\ toasts' = [title |-> "Camera Error", variant |-> "destructive"]
               /\ UNCHANGED isScanning
    /\ isLoading' = FALSE
    /\ UNCHANGED <<callVars, savingVars, qrVars, foodItems, foodTable, requests, invocations>>

\* the end of an invocation of handleScanSuccess
Settled(h, done) ==
    /\ invocations' = [invocations EXCEPT ![h] = done.invocation]
    /\ toasts' = done.toast

\* the decoder hands a decoded text to handleScanSuccess, which runs up to
\* the await of stopScanning, and to its end when nothing is awaited
DecoderCallback ==
    /\ scannerRef \in {"scanning", "stopping"}
    /\ \E h \in Handlers, decodedText \in ReaderTexts, zone \in Zones,
          reads \in IsScanningReads(scannerRef), answer \in StopAnswers(scannerRef) :
          LET invocation == [op |-> "handleScanSuccess", decodedText |-> decodedText]
              stop == stopScanningCalled(scannerRef, reads, answer)
          IN  /\ invocations[h] = Idle
              /\ scannerRef' = stop.scannerRef
              /\ isScanning' = IF stop.set THEN FALSE ELSE isScanning
              /\ IF stop.state = "stopped"
                 THEN Settled(h, ScanDelivered(expiryRules, now, zone, invocation))
                 ELSE /\ invocations' = [invocations EXCEPT ![h] =
                                            [op |-> invocation.op, decodedText |-> decodedText,
                                             state |-> stop.state, invoked |-> FALSE]]
                      /\ UNCHANGED toasts
    /\ UNCHANGED <<callVars, savingVars, qrVars, foodItems, foodTable, requests, isLoading>>

\* Stop Scanning
StopScanningPressed ==
    /\ isScanning
    /\ \E h \in Handlers, reads \in IsScanningReads(scannerRef),
          answer \in StopAnswers(scannerRef) :
          LET invocation == [op |-> "stopScanning", decodedText |-> << >>]
              stop == stopScanningCalled(scannerRef, reads, answer)
          IN  /\ invocations[h] = Idle
              /\ scannerRef' = stop.scannerRef
              /\ isScanning' = IF stop.set THEN FALSE ELSE isScanning
              /\ invocations' = [invocations EXCEPT ![h] =
                                    IF stop.state = "stopped"
                                    THEN StopDelivered(invocation)
                                    ELSE [op |-> invocation.op, decodedText |-> << >>,
                                          state |-> stop.state, invoked |-> FALSE]]
    /\ UNCHANGED <<callVars, trackerVars, savingVars, qrVars, isLoading>>

\* the decoder has released the camera: the pending stop() resolves
DecoderStopped ==
    /\ scannerRef = "stopping"
    /\ scannerRef' = "stopped"
    /\ UNCHANGED <<callVars, trackerVars, savingVars, qrVars, isScanning, isLoading, invocations>>

\* an invocation goes on after its await of stop()
InvocationContinues ==
    /\ scannerRef \in {"stopped", "null"}
    /\ \E h \in Handlers, zone \in Zones :
          /\ Awaiting(h)
          /\ IF invocations[h].op = "handleScanSuccess"
             THEN Settled(h, ScanDelivered(expiryRules, now, zone, invocations[h]))
             ELSE /\ invocations' = [invocations EXCEPT ![h] = StopDelivered(invocations[h])]
                  /\ UNCHANGED toasts
    /\ scannerRef' = "null"
    /\ isScanning' = FALSE
    /\ UNCHANGED <<callVars, savingVars, qrVars, foodItems, foodTable, requests, isLoading>>

\* the QR scanner component with its decoder, over time
NextReader ==
    \/ StartScanning
    \/ ScannerStarted
    \/ DecoderCallback
    \/ StopScanningPressed
    \/ DecoderStopped
    \/ InvocationContinues

SpecReader == Init /\ [][NextReader]_vars
(***************************************************************************)
(* Properties of predictRotDate.  The documented multipliers are written   *)
(* in twentieths and multiplied exactly, as integers, so that the rounded  *)
(* product the documentation promises is computed without the floating     *)
(* point arithmetic of the code.                                           *)
(***************************************************************************)
Predicted == pc = "returned" /\ call.op = "predictRotDate"

PredictedFromTable == Predicted /\ call.produceKey \in TableKeys

CalledProduce == produceDatabase[call.produceKey]

TemperatureTwentieths(distance) ==
    IF distance <= 2 THEN 20 ELSE IF distance <= 5 THEN 17 ELSE IF distance <= 10 THEN 13 ELSE 8

HumidityTwentieths(distance) ==
    IF distance <= 5 THEN 20 ELSE IF distance <= 15 THEN 18 ELSE IF distance <= 30 THEN 15 ELSE 10

PackagingTwentieths(packaging) ==
    CASE packaging = "refrigerated" -> 24
      [] packaging = "sealed" -> 22
      [] packaging = "plastic" -> 19
      [] packaging = "paper" -> 20
      [] packaging = "none" -> 17

DamageTwentieths(damage) ==
    CASE damage = "none" -> 20
      [] damage = "minor" -> 16
      [] damage = "moderate" -> 10
      [] damage = "severe" -> 5

RipenessTwentieths(ripeness) ==
    CASE ripeness = "unripe" -> 26
      [] ripeness = "ripe" -> 20
      [] ripeness = "overripe" -> 8

\* round(n / d) for n >= 0, halves upwards
RoundedQuotient(n, d) == (2 * n + d) \div (2 * d)

\* max(1, round(base x five multipliers)), the temperature and humidity
\* multipliers given in twentieths
RoundedProduct(produce, conditions, temperature20, humidity20) ==
    Max(1, RoundedQuotient(produce.baseShelfLife * temperature20 * humidity20
                             * PackagingTwentieths(conditions.packaging)
                             * DamageTwentieths(conditions.damage)
                             * RipenessTwentieths(conditions.ripeness),
                           20 * 20 * 20 * 20 * 20))

TemperatureDistance(produce, conditions) == Abs(conditions.temperature - produce.optimalTemp)

HumidityDistance(produce, conditions) == Abs(conditions.humidity - produce.optimalHumidity)

DocumentedDaysLeft(produce, conditions) ==
    RoundedProduct(produce, conditions,
                   TemperatureTwentieths(TemperatureDistance(produce, conditions)),
                   HumidityTwentieths(HumidityDistance(produce, conditions)))

\* C1: for every key of the table and every StorageConditions value,
\* predictRotDate returns daysLeft = max(1, round(baseShelfLife x the five
\* multipliers)), the multipliers compounding as one product.
C1_DaysLeftIsRoundedProduct ==
    PredictedFromTable =>
        /\ ~call.result.threw
        /\ call.result.daysLeft = Int32(DocumentedDaysLeft(CalledProduce, call.conditions))

\* banana at 13 C, 90 %, sealed, undamaged, overripe: 7 x 1.1 x 0.4 = 3.08, 3 days
C1_BananaExample ==
    /\ Predicted
    /\ call.produceKey = "banana"
    /\ call.conditions = [temperature |-> 13, humidity |-> 90, packaging |-> "sealed",
                          damage |-> "none", ripeness |-> "overripe"]
    /\ ~call.result.threw
    /\ call.result.daysLeft = Int32(3)

AtOptimum ==
    /\ PredictedFromTable
    /\ call.conditions = [temperature |-> CalledProduce.optimalTemp,
                          humidity |-> CalledProduce.optimalHumidity,
                          packaging |-> "paper", damage |-> "none", ripeness |-> "ripe"]

\* C2: with the temperature and humidity at the produce's optimum, paper
\* packaging, no damage and ripe, daysLeft is the produce's baseShelfLife.
C2_OptimumGivesBaseShelfLife ==
    AtOptimum =>
        /\ ~call.result.threw
        /\ call.result.daysLeft = Int32(CalledProduce.baseShelfLife)

\* onion kept at 0 C and 65 % in paper lasts its 30 days
C2_OnionAtOptimum ==
    /\ AtOptimum
    /\ call.produceKey = "onion"
    /\ call.conditions.temperature = 0
    /\ call.conditions.humidity = 65
    /\ call.result.daysLeft = Int32(30)

\* C3: every prediction for a key of the table has daysLeft >= 1, whatever
\* the conditions, a temperature of 1000 included.
C3_DaysLeftAtLeastOne ==
    PredictedFromTable =>
        /\ ~call.result.threw
        /\ call.result.daysLeft.kind = "int"
        /\ call.result.daysLeft.v >= 1

\* a product that rounds to zero days, at an extreme temperature, reported as one day
C3_FlooredAtExtremeTemperature ==
    /\ PredictedFromTable
    /\ call.conditions.temperature = ExtremeTemperature
    /\ RoundedQuotient(CalledProduce.baseShelfLife * 8
                         * HumidityTwentieths(HumidityDistance(CalledProduce, call.conditions))
                         * PackagingTwentieths(call.conditions.packaging)
                         * DamageTwentieths(call.conditions.damage)
                         * RipenessTwentieths(call.conditions.ripeness),
                       20 * 20 * 20 * 20 * 20) = 0
    /\ call.result.daysLeft = Int32(1)

\* C4 as documented: for every key that the table does not declare,
\* predictRotDate fails with the unknown-produce error and returns no prediction.
C4_UndeclaredKeyFails ==
    (Predicted /\ call.produceKey \notin TableKeys) =>
        /\ call.result.threw
        /\ call.result.error = "Unknown produce type"

ExtremeHumidityImpact == "Extreme humidity causes rapid deterioration (-50% shelf life)"

ExtremeTemperatureImpact == "Extreme temperature stress causes rapid spoilage (-60% shelf life)"

HumidityOutOfDomain == call.conditions.humidity < 0 \/ call.conditions.humidity > 100

RepeatedSameDay ==
    /\ Predicted
    /\ prev.op = "predictRotDate"
    /\ call.produceKey = prev.produceKey
    /\ call.conditions = prev.conditions
    /\ call.at.day = prev.at.day

\* C6 as documented: two calls with identical produceKey and conditions made
\* on the same day return identical daysLeft and identical rotDate.
C6_SameDaySameResult ==
    RepeatedSameDay =>
        /\ call.result.daysLeft = prev.result.daysLeft
        /\ call.result.rotDate = prev.result.rotDate

\* C6: two calls with identical produceKey and conditions made on the same
\* day return identical daysLeft and a rotDate on the same calendar day,
\* whatever calls happened in between; the time of day of each rotDate is
\* the time of day of its own call.
C6_SameDaySameDaysLeftAndDay ==
    RepeatedSameDay =>
        /\ call.result.daysLeft = prev.result.daysLeft
        /\ call.result.rotDate.valid /\ prev.result.rotDate.valid
        /\ call.result.rotDate.day = prev.result.rotDate.day
        /\ call.result.rotDate.tod = call.at.tod
        /\ prev.result.rotDate.tod = prev.at.tod

\* the same call later on the same day, other calls having been made in between
C6_RepeatedLaterThatDay ==
    /\ RepeatedSameDay
    /\ prev.later
    /\ call.at.tod # prev.at.tod
    /\ call.result.daysLeft = prev.result.daysLeft
    /\ call.result.rotDate.day = prev.result.rotDate.day
    /\ call.result.rotDate # prev.result.rotDate

(***************************************************************************)
(* Properties of the expiry-rule resolver.  Case folding and substring     *)
(* search are restated here position by position.                          *)
(***************************************************************************)
Folded(text) ==
    [i \in 1..Len(text) |-> IF text[i] \in DOMAIN UpperToLower THEN UpperToLower[text[i]] ELSE text[i]]

\* keyword occurs in text at offset o
OccursAt(keyword, text, o) ==
    /\ o + Len(keyword) <= Len(text)
    /\ \A j \in 1..Len(keyword) : text[o + j] = keyword[j]

Occurs(keyword, text) == \E o \in 0..Len(text) : OccursAt(keyword, text, o)

\* the positions in the table of the rules a keyword of which occurs in the
\* case-folded text
MatchingRules(text) ==
    {i \in 1..Len(expiryRules) :
        \E k \in 1..Len(expiryRules[i].keywords) : Occurs(expiryRules[i].keywords[k], Folded(text))}

Earliest(S) == CHOOSE i \in S : \A j \in S : i <= j

Found == pc = "returned" /\ call.op = "findExpiryRule"

\* C7: when a text contains keywords of two or more different rules,
\* findExpiryRule returns the rule that comes first in the table, whatever
\* the keywords' lengths and places in the text.
C7_EarliestRuleWins ==
    (Found /\ Cardinality(MatchingRules(call.itemName)) >= 2) =>
        call.result = expiryRules[Earliest(MatchingRules(call.itemName))]

\* "BUTTERMILK": butter (rule 4) is the longer keyword and comes first in
\* the text, milk (rule 1) comes first in the table
C7_ButtermilkIsMilk ==
    /\ Found
    /\ call.itemName = <<"B", "U", "T", "T", "E", "R", "M", "I", "L", "K">>
    /\ MatchingRules(call.itemName) = {1, 4}
    /\ call.result = expiryRules[1]
    /\ call.result.keywords[1] = <<"m", "i", "l", "k">>

\* C8: findExpiryRule returns a rule exactly when the lowercased text
\* contains a keyword of some rule as a substring, and null exactly when it
\* contains none; "Fresh Aloo 1kg" gives the Vegetables rule of 14 days.
C8_FoundIffSomeKeywordOccurs ==
    Found =>
        /\ (call.result # null) <=> (MatchingRules(call.itemName) # {})
        /\ call.result # null =>
              \E i \in MatchingRules(call.itemName) : call.result = expiryRules[i]

C8_FreshAlooExample ==
    /\ Found
    /\ call.itemName = <<"F", "r", "e", "s", "h", " ", "A", "l", "o", "o", " ", "1", "k", "g">>
    /\ call.result # null
    /\ call.result.category = "Vegetables"
    /\ call.result.daysUntilExpiry = 14

\* the calendar, month by month
DaysInMonth(year, month) ==
    IF month = 2
    THEN (IF year % 4 = 0 /\ (year % 100 # 0 \/ year % 400 = 0) THEN 29 ELSE 28)
    ELSE IF month \in {4, 6, 9, 11} THEN 30 ELSE 31

FirstOfNextMonth(c) ==
    IF c.month < 12 THEN [year |-> c.year, month |-> c.month + 1, date |-> 1]
    ELSE [year |-> c.year + 1, month |-> 1, date |-> 1]

\* the calendar day n days after c: within the month if the month has that
\* many days left, otherwise counted on from the first of the next month
RECURSIVE CalendarPlus(_, _)
CalendarPlus(c, n) ==
    IF c.date + n <= DaysInMonth(c.year, c.month) THEN [c EXCEPT !.date = c.date + n]
    ELSE CalendarPlus(FirstOfNextMonth(c), n - (DaysInMonth(c.year, c.month) - c.date + 1))

\* the year, month (1..12) and day of the month a Date shows
CalendarDay(D) ==
    [year |-> YearFromDay(D.day), month |-> MonthFromDay(D.day) + 1, date |-> DateFromDay(D.day)]

Calculated == pc = "returned" /\ call.op = "calculateExpiryDate"

\* the purchase date of the call: the argument, or the clock when it is omitted
PurchaseDate == IF call.purchaseDate = undefined THEN call.at ELSE call.purchaseDate

\* the Date n calendar days after the purchase date, at the same time of day
ExpiresAfter(n) ==
    /\ call.result.valid
    /\ CalendarDay(call.result) = CalendarPlus(CalendarDay(PurchaseDate), n)
    /\ call.result.tod = PurchaseDate.tod

\* C9: for every text for which findExpiryRule returns a rule and every
\* purchase date, calculateExpiryDate returns the purchase date plus that
\* rule's daysUntilExpiry calendar days, across month and year ends.
C9_RuleDaysAdded ==
    (Calculated /\ MatchingRules(call.itemName) # {}) =>
        ExpiresAfter(expiryRules[Earliest(MatchingRules(call.itemName))].daysUntilExpiry)

\* "Milk" bought 2025-01-01 expires 2025-01-04
C9_MilkExample ==
    /\ Calculated
    /\ call.itemName = <<"M", "i", "l", "k">>
    /\ call.purchaseDate # undefined
    /\ CalendarDay(call.purchaseDate) = [year |-> 2025, month |-> 1, date |-> 1]
    /\ CalendarDay(call.result) = [year |-> 2025, month |-> 1, date |-> 4]

\* C10: for every text that matches no rule, calculateExpiryDate does not
\* fail and returns the purchase date plus 7 days; a text that matches a
\* rule gets that rule's days, never the fallback.
C10_SevenDaysIffNoRule ==
    Calculated =>
        IF MatchingRules(call.itemName) = {}
        THEN ExpiresAfter(7)
        ELSE call.result.valid
             /\ call.result.day - PurchaseDate.day
                   = expiryRules[Earliest(MatchingRules(call.itemName))].daysUntilExpiry

\* "Xyzzy unknown item" bought 2025-01-01 expires 2025-01-08
C10_XyzzyExample ==
    /\ Calculated
    /\ call.itemName = <<"X", "y", "z", "z", "y", " ", "u", "n", "k", "n", "o", "w", "n", " ",
                         "i", "t", "e", "m">>
    /\ MatchingRules(call.itemName) = {}
    /\ call.purchaseDate # undefined
    /\ CalendarDay(call.purchaseDate) = [year |-> 2025, month |-> 1, date |-> 1]
    /\ CalendarDay(call.result) = [year |-> 2025, month |-> 1, date |-> 8]

EntriesWellFormed ==
    \A key \in DOMAIN produceDatabase :
        /\ produceDatabase[key].baseShelfLife \in Nat \ {0}
        /\ produceDatabase[key].optimalHumidity \in 0..100

\* C12 as documented: the table predictRotDate looks keys up in has exactly
\* 23 entries, each with a positive integer baseShelfLife and an
\* optimalHumidity within 0..100.
C12_TwentyThreeEntries ==
    /\ Cardinality(DOMAIN produceDatabase) = 23
    /\ EntriesWellFormed

\* C12: the table predictRotDate looks keys up in has exactly 22 entries,
\* each with a positive integer baseShelfLife and an optimalHumidity within
\* 0..100.
C12_TwentyTwoEntries ==
    /\ Cardinality(DOMAIN produceDatabase) = 22
    /\ EntriesWellFormed

\* a key looked up in the table of 22: its last entry
C12_LastEntryLookedUp ==
    /\ PredictedFromTable
    /\ call.produceKey = "eggplant"
    /\ ~call.result.threw
    /\ Cardinality(DOMAIN produceDatabase) = 22
    /\ produceDatabase[call.produceKey].baseShelfLife = 7
    /\ produceDatabase[call.produceKey].optimalHumidity = 90

(***************************************************************************)
(* The date of a prediction.                                               *)
(***************************************************************************)
\* C13 as documented: every RotPrediction has rotDate equal to the date of
\* the call plus exactly daysLeft calendar days, hence at least one calendar
\* day after the call.
C13_RotDateIsCallDatePlusDaysLeft ==
    (Predicted /\ ~call.result.threw) =>
        /\ call.result.rotDate.valid
        /\ call.result.daysLeft.kind = "int"
        /\ CalendarDay(call.result.rotDate)
              = CalendarPlus(CalendarDay(call.at), call.result.daysLeft.v)
        /\ call.result.rotDate.day >= call.at.day + 1

(***************************************************************************)
(* The temperature and humidity tiers.                                     *)
(***************************************************************************)
TemperatureTierImpact(distance) ==
    IF distance <= 2 THEN "Optimal temperature maintained"
    ELSE IF distance <= 5 THEN "Slightly suboptimal temperature (-15% shelf life)"
    ELSE IF distance <= 10 THEN "Poor temperature control accelerates decay (-35% shelf life)"
    ELSE ExtremeTemperatureImpact

HumidityTierImpact(distance) ==
    IF distance <= 5 THEN "Ideal humidity level"
    ELSE IF distance <= 15 THEN "Slightly off humidity (-10% shelf life)"
    ELSE IF distance <= 30 THEN "Humidity imbalance promotes microbial growth (-25% shelf life)"
    ELSE ExtremeHumidityImpact

\* everything but the temperature is neutral: humidity within 5 points,
\* paper, undamaged, ripe
OnlyTemperatureOff ==
    /\ HumidityDistance(CalledProduce, call.conditions) <= 5
    /\ call.conditions.packaging = "paper"
    /\ call.conditions.damage = "none"
    /\ call.conditions.ripeness = "ripe"

\* everything but the humidity is neutral
OnlyHumidityOff ==
    /\ TemperatureDistance(CalledProduce, call.conditions) <= 2
    /\ call.conditions.packaging = "paper"
    /\ call.conditions.damage = "none"
    /\ call.conditions.ripeness = "ripe"

\* C19: the temperature multiplier is decided by d = |temperature -
\* optimalTemp| alone, upper boundaries inclusive: d <= 2 x1.0, d <= 5 x0.85,
\* d <= 10 x0.65, above x0.4; temperatureImpact is the text of that tier.
C19_TemperatureTiers ==
    PredictedFromTable =>
        /\ call.result.factors.temperatureImpact
              = TemperatureTierImpact(TemperatureDistance(CalledProduce, call.conditions))
        /\ OnlyTemperatureOff =>
              call.result.daysLeft =
                 Int32(Max(1, RoundedQuotient(
                    CalledProduce.baseShelfLife
                       * TemperatureTwentieths(TemperatureDistance(CalledProduce, call.conditions)),
                    20)))

\* exactly 5 degrees off is still the second tier: potato (30 days, 7 C) at 2 C
C19_FiveDegreesOff ==
    /\ PredictedFromTable
    /\ OnlyTemperatureOff
    /\ call.produceKey = "potato"
    /\ TemperatureDistance(CalledProduce, call.conditions) = 5
    /\ call.result.factors.temperatureImpact = "Slightly suboptimal temperature (-15% shelf life)"
    /\ call.result.daysLeft = Int32(26)

\* C20: the humidity multiplier is decided by d = |humidity -
\* optimalHumidity| alone, upper boundaries inclusive: d <= 5 x1.0, d <= 15
\* x0.9, d <= 30 x0.75, above x0.5.
C20_HumidityTiers ==
    PredictedFromTable =>
        /\ call.result.factors.humidityImpact
              = HumidityTierImpact(HumidityDistance(CalledProduce, call.conditions))
        /\ OnlyHumidityOff =>
              call.result.daysLeft =
                 Int32(Max(1, RoundedQuotient(
                    CalledProduce.baseShelfLife
                       * HumidityTwentieths(HumidityDistance(CalledProduce, call.conditions)),
                    20)))

\* exactly 30 points off is still the third tier: onion (30 days, 65 %) at 95 %
C20_ThirtyPointsOff ==
    /\ PredictedFromTable
    /\ OnlyHumidityOff
    /\ call.produceKey = "onion"
    /\ HumidityDistance(CalledProduce, call.conditions) = 30
    /\ call.result.factors.humidityImpact
          = "Humidity imbalance promotes microbial growth (-25% shelf life)"
    /\ call.result.daysLeft = Int32(23)

(***************************************************************************)
(* Properties of the notification functions.                               *)
(***************************************************************************)
Notifying == pc = "returned" /\ call.op \in {"showNotification", "checkExpiringItems"}

\* C16: a browser notification is created only when the permission is
\* 'granted' at the moment of the call: while it is 'default' or 'denied',
\* showNotification and checkExpiringItems create no notification.
C16_NotifiesOnlyWhenGranted ==
    Notifying =>
        /\ call.permission = permission
        /\ call.permission \in {"default", "denied"} => call.created = << >>
        /\ call.created # << >> => call.permission = "granted"

\* an item expires today and the permission is denied: checkExpiringItems
\* displays nothing
C16_ExpiringItemNotShown ==
    /\ pc = "returned"
    /\ call.op = "checkExpiringItems"
    /\ call.permission = "denied"
    /\ \E i \in 1..Len(call.items) :
          /\ call.items[i].expiry_date = <<"2", "0", "2", "4", "-", "1", "2", "-", "3", "0">>
          /\ call.at.day = MakeDay(2024, 11, 30)
          /\ call.zone = 0
    /\ call.created = << >>

(***************************************************************************)
(* Properties of the produce scanner page.                                 *)
(***************************************************************************)
PredictionAsked == pc = "returned" /\ call.op = "calculatePrediction"

\* C15: after any sequence of selections, resets and QR decode events,
\* unrecognised QR texts included, selectedProduce is empty or a key of the
\* produce table, and predictRotDate is only invoked with a key of the
\* table, so that the unknown-produce error never occurs on the page.
C15_SelectionIsEmptyOrTableKey ==
    /\ selectedProduce \in TableKeys \cup {""}
    /\ PredictionAsked =>
          /\ call.invoked <=> call.selectedProduce # ""
          /\ call.invoked =>
                /\ call.produceKey \in TableKeys
                /\ ~call.result.threw
                /\ call.result.daysLeft.kind = "int"

\* banana being selected, the QR text "constructor" is decoded: it is
\* reported unknown and the selection stays banana
C15_UnknownQrKeepsSelection ==
    /\ pc = "returned"
    /\ call.op = "handleQrSuccess"
    /\ call.decodedText = <<"c", "o", "n", "s", "t", "r", "u", "c", "t", "o", "r">>
    /\ call.produceKey = UndefinedValue
    /\ call.toast.title = "Unknown Product"
    /\ selectedProduce = "banana"

(***************************************************************************)
(* Properties of the food items handed to the persistence collaborator.    *)
(***************************************************************************)
Adding == pc = "returned" /\ call.op \in {"handleSubmit", "processImage", "handleScanSuccess"}

\* C14 as documented: every FoodItem insert payload handed to the
\* persistence collaborator, from the manual form, a receipt scan or a QR
\* scan (JSON or key=value payload with any qty value), has quantity >= 1.
C14_QuantityAtLeastOne ==
    Adding =>
        \A i \in 1..Len(call.inserted) :
            /\ call.inserted[i].quantity.kind = "number"
            /\ call.inserted[i].quantity.value >= 1

\* a QR scan that handed one item to the persistence collaborator
QrAdded == pc = "returned" /\ call.op = "handleScanSuccess" /\ Len(call.inserted) = 1

\* the expiry the QR payload encodes, if any
EncodedExpiry == Member(call.productData, "expiry")

\* the days calculateExpiryDate adds for a name: those of the first rule a
\* keyword of which occurs in it, or 7
RuleDaysOrSeven(name) ==
    IF MatchingRules(name) = {} THEN 7
    ELSE expiryRules[Earliest(MatchingRules(name))].daysUntilExpiry

\* the days from the local calendar day to the UTC calendar day of an
\* instant of the day in a zone
DaysToUTC(tod, zone) ==
    IF tod - zone < 0 THEN -1 ELSE IF tod - zone >= TicksPerDay THEN 1 ELSE 0

\* text is "YYYY-MM-DD" for the calendar day c
IsDateText(text, c) ==
    /\ Len(text) = 10
    /\ text[5] = "-" /\ text[8] = "-"
    /\ DigitsValue(SubSeq(text, 1, 4)) = c.year
    /\ DigitsValue(SubSeq(text, 6, 7)) = c.month
    /\ DigitsValue(SubSeq(text, 9, 10)) = c.date

\* the calendar day a "YYYY-MM-DD" text names
DateOfText(text) ==
    [year |-> DigitsValue(SubSeq(text, 1, 4)), month |-> DigitsValue(SubSeq(text, 6, 7)),
     date |-> DigitsValue(SubSeq(text, 9, 10))]

\* C17: for an item added from a QR scan, the inserted expiry_date is the
\* expiry encoded in the QR payload when one is encoded; otherwise it is
\* calculateExpiryDate(item name), the instant of the scan plus the
\* matching rule's days or plus 7, written as its UTC calendar day, which is
\* that many days after the purchase_date inserted for a scan without a
\* manufacturing date.  The calculation is never used when an expiry is
\* encoded.
C17_EncodedExpiryElseCalculated ==
    QrAdded =>
        IF IsTruthy(EncodedExpiry)
        THEN call.inserted[1].expiry_date = EncodedExpiry.value
        ELSE /\ IsDateText(call.inserted[1].expiry_date,
                        CalendarPlus(CalendarDay(call.at),
                                     RuleDaysOrSeven(call.inserted[1].name.value)
                                       + DaysToUTC(call.at.tod, call.zone)))
             /\ ~IsTruthy(Member(call.productData, "mfg")) =>
                   IsDateText(call.inserted[1].expiry_date,
                              CalendarPlus(DateOfText(call.inserted[1].purchase_date),
                                           RuleDaysOrSeven(call.inserted[1].name.value)))

\* milk with the expiry 2025-12-31 encoded, scanned on 2024-12-30: the
\* three days of the milk rule are not used
C17_EncodedExpiryInserted ==
    /\ QrAdded
    /\ call.inserted[1].name = TextValue(<<"M", "i", "l", "k">>)
    /\ EncodedExpiry = TextValue(<<"2", "0", "2", "5", "-", "1", "2", "-", "3", "1">>)
    /\ call.zone = 1
    /\ CalendarDay(call.at) = [year |-> 2024, month |-> 12, date |-> 30]
    /\ RuleDaysOrSeven(call.inserted[1].name.value) = 3
    /\ call.inserted[1].expiry_date = <<"2", "0", "2", "5", "-", "1", "2", "-", "3", "1">>

\* the text is a plain product name: not blank, not a JSON object, and
\* without a key=value pair
IsPlainName(text) ==
    /\ Len(trim(text)) > 0
    /\ ~(JSONparse(text).ok /\ JSONparse(text).value.kind = "object")
    /\ \A i \in 1..Len(text) : text[i] # "="

\* C18 as documented: a decoded QR text that is a plain product name is
\* accepted: handleScanSuccess reports an item whose name is the trimmed
\* text, with category 'Other' and quantity 1, and never rejects it as an
\* invalid QR code.
C18_PlainNameAccepted ==
    (pc = "returned" /\ call.op = "handleScanSuccess" /\ IsPlainName(call.decodedText)) =>
        /\ call.accepted
        /\ call.toast # "Invalid QR Code"
        /\ call.itemData.name = TextValue(trim(call.decodedText))
        /\ call.itemData.category = TextValue(<<"O", "t", "h", "e", "r">>)
        /\ call.itemData.quantity = NumberValue(1)

(***************************************************************************)
(* The categorical conditions and the ethylene note of predictRotDate.     *)
(***************************************************************************)
\* the documented multipliers of the categorical conditions, in hundredths
CategoricalHundredths ==
    [packaging |-> [refrigerated |-> 120, sealed |-> 110, paper |-> 100, plastic |-> 95, none |-> 85],
     damage |-> [none |-> 100, minor |-> 80, moderate |-> 50, severe |-> 25],
     ripeness |-> [unripe |-> 130, ripe |-> 100, overripe |-> 40]]

\* temperature and humidity are in their neutral tiers
NeutralClimate ==
    /\ TemperatureDistance(CalledProduce, call.conditions) <= 2
    /\ HumidityDistance(CalledProduce, call.conditions) <= 5

\* C21: each categorical condition contributes exactly the multiplier of
\* its table entry and nothing else: with temperature and humidity in their
\* neutral tiers, daysLeft is max(1, round(baseShelfLife x packaging x damage
\* x ripeness)) with packaging refrigerated x1.2, sealed x1.1, paper x1.0,
\* plastic x0.95, none x0.85; damage none x1.0, minor x0.8, moderate x0.5,
\* severe x0.25; ripeness unripe x1.3, ripe x1.0, overripe x0.4.
C21_CategoricalMultipliers ==
    (PredictedFromTable /\ NeutralClimate) =>
        call.result.daysLeft =
            Int32(Max(1, RoundedQuotient(
                CalledProduce.baseShelfLife
                   * CategoricalHundredths.packaging[call.conditions.packaging]
                   * CategoricalHundredths.damage[call.conditions.damage]
                   * CategoricalHundredths.ripeness[call.conditions.ripeness],
                100 * 100 * 100)))

\* a severely damaged apple (30 days) kept at its optimum in paper: 7.5, 8 days
C21_SeverelyDamagedApple ==
    /\ PredictedFromTable
    /\ NeutralClimate
    /\ call.produceKey = "apple"
    /\ call.conditions.packaging = "paper"
    /\ call.conditions.damage = "severe"
    /\ call.conditions.ripeness = "ripe"
    /\ call.result.daysLeft = Int32(8)

\* the three documented templates of the ethylene note
ProducerNote(produce) ==
    <<produce.name, " produces ethylene gas which speeds ripening of nearby produce">>

SensitiveNote(produce) ==
    <<produce.name, " is sensitive to ethylene - keep away from bananas, apples, and tomatoes">>

LowInteractionNote(produce) == <<produce.name, " has low ethylene interaction">>

\* the produce table with both ethylene flags of one entry inverted
FlagsInverted(db, produceKey) ==
    [db EXCEPT ![produceKey].ethyleneProducer = ~@, ![produceKey].ethyleneSensitive = ~@]

\* C22: the ethyleneNote of a prediction for a table key is the producer
\* template whenever ethyleneProducer is true (also when the produce is
\* sensitive as well), the sensitive template when it is sensitive but not a
\* producer, and the low-interaction template when neither; daysLeft is the
\* same as for a produce whose flags are the opposite.
C22_EthyleneNoteTemplates ==
    PredictedFromTable =>
        /\ call.result.factors.ethyleneNote =
              (IF CalledProduce.ethyleneProducer THEN ProducerNote(CalledProduce)
               ELSE IF CalledProduce.ethyleneSensitive THEN SensitiveNote(CalledProduce)
               ELSE LowInteractionNote(CalledProduce))
        /\ call.result.daysLeft =
              predictRotDate(FlagsInverted(produceDatabase, call.produceKey), call.at,
                             call.produceKey, call.conditions).daysLeft

\* a banana both produces ethylene and is sensitive to it: the producer template
C22_BananaIsProducer ==
    /\ PredictedFromTable
    /\ call.produceKey = "banana"
    /\ CalledProduce.ethyleneProducer
    /\ CalledProduce.ethyleneSensitive
    /\ call.result.factors.ethyleneNote = ProducerNote(CalledProduce)

(***************************************************************************)
(* The keywords of the expiry-rule table.                                  *)
(***************************************************************************)
LookedUp == pc = "returned" /\ call.op = "findExpiryRule"

\* the item name is keyword k of rule r, in any case
IsKeyword(itemName, r, k) == Folded(itemName) = expiryRules[r].keywords[k]

\* C29: every keyword of the expiry-rule table resolves to the rule that
\* declares it: for each rule R and each keyword k of R, findExpiryRule(k)
\* returns R, so no keyword is shadowed by an earlier rule and every rule is
\* reachable.
C29_KeywordResolvesToItsRule ==
    /\ \A r \in 1..Len(expiryRules) : Len(expiryRules[r].keywords) > 0
    /\ LookedUp =>
          \A r \in 1..Len(expiryRules) : \A k \in 1..Len(expiryRules[r].keywords) :
             IsKeyword(call.itemName, r, k) => call.result = expiryRules[r]

\* cottage cheese holds the keyword of the later cheese rule and resolves to
\* the paneer rule that declares it
C29_CottageCheeseIsPaneer ==
    /\ LookedUp
    /\ call.itemName = <<"c", "o", "t", "t", "a", "g", "e", " ", "c", "h", "e", "e", "s", "e">>
    /\ call.result = expiryRules[3]
    /\ IsKeyword(call.itemName, 3, 2)
    /\ includes(call.itemName, expiryRules[5].keywords[1])

(***************************************************************************)
(* The statistics of the welcome banner.                                   *)
(***************************************************************************)
Rendered == pc = "returned" /\ call.op = "WelcomeBanner"

\* the days of the n-th item of the rendered list
DaysOf(n) == BannerDays(call.items[n], call.at, call.zone)

\* the unconsumed items whose days satisfy Class
Counted(Class(_)) ==
    Cardinality({n \in 1..Len(call.items) : ~call.items[n].is_consumed /\ Class(DaysOf(n))})

InExpired(days) == days.v < 0
InExpiringSoon(days) == 0 <= days.v /\ days.v <= 3
InSafe(days) == days.v > 3

\* C30: in the welcome banner statistics every unconsumed item is counted in
\* exactly one of expired (days < 0), expiringSoon (0 <= days <= 3) and safe
\* (days > 3), so expired + expiringSoon + safe = total, and consumed items
\* are counted in none of them.
C30_StatsPartitionActiveItems ==
    Rendered =>
        /\ call.stats.expired = Counted(InExpired)
        /\ call.stats.expiringSoon = Counted(InExpiringSoon)
        /\ call.stats.safe = Counted(InSafe)
        /\ call.stats.total = Counted(LAMBDA days : TRUE)
        /\ call.stats.expired + call.stats.expiringSoon + call.stats.safe = call.stats.total

\* an unconsumed item expiring today and a consumed one: one item in all,
\* counted as expiring soon
C30_ExpiringTodayCounted ==
    /\ Rendered
    /\ Len(call.items) = 2
    /\ ~call.items[1].is_consumed /\ DaysOf(1) = Int32(0)
    /\ call.items[2].is_consumed
    /\ call.stats = [expiringSoon |-> 1, expired |-> 0, safe |-> 0, total |-> 1]

(***************************************************************************)
(* The list of the item tracker page.                                      *)
(***************************************************************************)
InList(id, items) == \E n \in 1..Len(items) : items[n].id = id

\* the row is gone from the table and no delete of it awaits its answer or
\* its continuation: the backend's confirmation has reached the page
DeletionConfirmed(id) ==
    /\ \A row \in foodTable : row.id # id
    /\ \A h \in Handlers : requests[h] # Idle =>
          ~(requests[h].op = "delete" /\ requests[h].id = id)

\* handler h continues after its await in this step
Continues(h) == requests[h] # Idle /\ requests'[h] = Idle

\* C24 as documented: once the backend has confirmed the deletion of an
\* item, that item never again appears in the local item list as a result
\* of another delete or consumed-toggle completing, even when several
\* requests are in flight at the same time.
C24_DeletedItemStaysGone ==
    [][\A n \in 1..Len(RowIds) :
          (DeletionConfirmed(RowIds[n]) /\ ~InList(RowIds[n], foodItems)
              /\ \E h \in Handlers : Continues(h))
          => ~InList(RowIds[n], foodItems')]_vars

\* the items of a list other than the one with the given id
Others(items, id) == SelectSeq(items, LAMBDA item : item.id # id)

\* C25 as documented: the local item list changes only after the backend
\* reports success and only for the targeted item: when a delete or
\* consumed-toggle request returns an error the list is left exactly as it
\* was, and on success every item other than the one with the given id is
\* unchanged.
C25_OnlyTargetedItemChanges ==
    [][/\ \A h \in Handlers : Continues(h) =>
             IF requests[h].answer = "error" THEN foodItems' = foodItems
             ELSE Others(foodItems', requests[h].id) = Others(foodItems, requests[h].id)
       /\ (HandleDelete \/ HandleToggleConsumed \/ BackendSucceeds \/ BackendFails)
             => foodItems' = foodItems]_vars

(***************************************************************************)
(* Saving a prediction on the produce scanner page.                        *)
(***************************************************************************)
\* a continuation of saveToInventory has just run
SaveContinued == pc = "returned" /\ call.op = "saveToInventory"

\* C26 as documented: isSaved is true only while the prediction currently
\* displayed is the one that was inserted into the inventory: after any
\* sequence of predict, save, produce-selection and reset actions, a
\* prediction that has not been saved is never shown as Saved to Inventory
\* with saving disabled.  A step that sets isSaved displays the prediction
\* it inserted, and a step that displays another prediction clears isSaved.
C26_SavedMeansDisplayedWasInserted ==
    [][(isSaved' /\ prediction' # null) =>
          IF isSaved THEN prediction' = prediction
          ELSE saving # Idle /\ saving.prediction = prediction']_vars

\* C27: every saveToInventory call that sets isSaving to true eventually
\* sets it back to false, in each of its three outcomes: insert succeeded,
\* insert failed, and no authenticated user, in which case no insert is sent
\* at all.
C27_SavingEnds ==
    /\ isSaving ~> ~isSaving
    /\ [](SaveContinued =>
            /\ call.outcome \in {"saved", "failed", "login required"} => ~isSaving
            /\ call.outcome = "login required" => (call.sent = << >> /\ saving = Idle))
    /\ [][(saving # Idle /\ saving.awaits = "insert")
             => (saving' = saving \/ saving' = Idle)]_vars

\* without a signed-in user the save ends at the session lookup
C27_LoginRequired ==
    /\ SaveContinued
    /\ call.outcome = "login required"
    /\ call.toast.title = "Login Required"
    /\ ~isSaving
    /\ ~isSaved

(***************************************************************************)
(* The QR decoder of the produce scanner page.                             *)
(***************************************************************************)
\* the decoder has just handed a text of a known produce to handleQrSuccess
KnownProduceScanned ==
    pc = "returned" /\ call.op = "handleQrSuccess" /\ IsTruthy(call.produceKey)

\* C23 as documented: whenever a decoded QR text resolves to a known produce
\* key while the QR decoder is running, the running decoder is actually
\* stopped (its stop operation is invoked) and qrScannerActive becomes
\* false; the decoder is never left running while the page shows the QR
\* scanner as inactive, also after the page is unmounted.
C23_DecoderStoppedWithScanner ==
    /\ KnownProduceScanned =>
          (call.stop /\ qrScanner # "scanning" /\ ~qrScannerActive)
    /\ qrScanner = "scanning" => (mounted /\ qrScannerActive)


\* ---- C28 ----

\* C28: within one scanning session of the QR scanner component, from
\* startScanning until the scanner is stopped, onScanSuccess is invoked at
\* most once, also when the decoder delivers a second decoded text before
\* the stop triggered by the first one has completed
C28_ScannedAtMostOnce == Cardinality(Delivered(invocations)) <= 1
====
